---------------------------- MODULE Spec2Model ----------------------------
(***************************************************************************)
(* Behavioural risk-assessment engine of server-c-monitoring.              *)
(*                                                                         *)
(* Python values are modelled as follows.                                  *)
(*   dict      a record; a key the dict lacks is a field the record lacks  *)
(*             (Get is dict.get with its default)                          *)
(*   list      a sequence                                                  *)
(*   str       a sequence of one-character strings ("" is << >>)           *)
(*   None      the one-element sequence None, which is no str              *)
(*   enumerated tags (event_type, severity, type, status) are strings      *)
(***************************************************************************)
EXTENDS Integers, Sequences, FiniteSets, TLC

VARIABLES
    interactions,     \* Event Store: interaction log of the session
    file_operations,  \* Event Store: file-operation log of the session
    terminal_events,  \* Event Store: terminal-event log of the session
    submissions,      \* Event Store: submissions of the session
    code_snapshots,   \* Event Store: code snapshots of the session
    outage,           \* the Event Store endpoint that fails, and how
    now,              \* wall clock read by datetime.now(), in seconds
    request,          \* the tool call in progress
    response,         \* the response to the last tool call
    reads,            \* Event Store endpoints read for the last tool call
    violations,       \* scorer input: a violation list
    events,           \* scorer input: an event list
    swaps,            \* number of reorderings applied to `events`
    score,            \* scorer output for (violations, events)
    aggregate,        \* aggregator inputs with the checks and alerts made of them
    stores,           \* Event Store: the records of each session
    calls             \* concurrent tool calls: position, fetched records, result

storeVars == <<interactions, file_operations, terminal_events, submissions,
               code_snapshots>>
serverVars == <<storeVars, outage, now, request, response, reads>>
scoreVars == <<violations, events, swaps, score>>
concurrentVars == <<stores, calls>>
vars == <<serverVars, scoreVars, aggregate, concurrentVars>>

---------------------------------------------------------------------------
(* Bounds of the model *)

MaxViolations == 4
MaxSwaps == 1

---------------------------------------------------------------------------
(* Python built-ins *)

None == <<"None">>

Get(d, key, default) == IF key \in DOMAIN d THEN d[key] ELSE default

Min(a, b) == IF a < b THEN a ELSE b

Max(a, b) == IF a > b THEN a ELSE b

Range(s) == { s[i] : i \in DOMAIN s }

\* e.get("event_type"): the tag, or a value equal to no tag when absent
EventType(e) == Get(e, "event_type", "")

IsPrompt(e) == EventType(e) = "prompt_sent"

IsCopy(e) == EventType(e) \in {"code_copied_from_ai", "code_copied"}

IsModification(e) == EventType(e) = "code_modified"

\* mutant: floor division in place of true division
RatioExceedsFloorDiv(a, b, k) == (a \div b) > k

\* a / b > k for counts a and b > 0 (true division, exact at these sizes)
RatioExceeds(a, b, k) == a > k * b

---------------------------------------------------------------------------
(* Risk scoring: agent_6_watcher and agent_8_sanity_flag *)

\* mutant: a medium violation weighs as little as a low one
SeverityWeightLight(violation) ==
    IF Get(violation, "severity", "low") = "high" THEN 30 ELSE 5

SeverityWeight(violation) ==
    LET severity == Get(violation, "severity", "low")
    IN  IF severity = "high" THEN 30
        ELSE IF severity = "medium" THEN 15
        ELSE 5

\* mutant: `base_score = ...` in place of `base_score += ...`
RECURSIVE AssignSeverity(_, _)
AssignSeverity(vs, base_score) ==
    IF vs = << >> THEN base_score
    ELSE AssignSeverity(Tail(vs), SeverityWeight(Head(vs)))

\* the `for violation in violations: base_score += ...` loop
RECURSIVE AccumulateSeverity(_, _)
AccumulateSeverity(vs, base_score) ==
    IF vs = << >> THEN base_score
    ELSE AccumulateSeverity(Tail(vs), base_score + SeverityWeight(Head(vs)))

watcher_calculate_risk_score_uncapped(vs, inter) ==
    IF vs = << >> THEN 0 ELSE AccumulateSeverity(vs, 0)

watcher_calculate_risk_score(vs, inter) ==
    IF vs = << >> THEN 0
    ELSE Min(100, AccumulateSeverity(vs, 0))

EventPatternScore(evs) ==
    LET prompts == SelectSeq(evs, IsPrompt)
        copies == SelectSeq(evs, IsCopy)
        modifications == SelectSeq(evs, IsModification)
        ratio == IF Len(modifications) > 0 /\ Len(copies) > 0
                    /\ RatioExceeds(Len(copies), Len(modifications), 2)
                 THEN 20 ELSE 0
        frequency == IF Len(prompts) > 20 THEN 15 ELSE 0
    IN  ratio + frequency

\* mutant: the score wraps instead of saturating
sanity_flag_calculate_risk_score_wrapping(vs, evs) ==
    (AccumulateSeverity(vs, 0) + EventPatternScore(evs)) % 101

\* mutant: the cap is applied to the violation part only
sanity_flag_calculate_risk_score_capped_early(vs, evs) ==
    Min(100, AccumulateSeverity(vs, 0)) + EventPatternScore(evs)

sanity_flag_calculate_risk_score(vs, evs) ==
    Min(100, AccumulateSeverity(vs, 0) + EventPatternScore(evs))

---------------------------------------------------------------------------
(* Scorer specification: the two scorers applied to free inputs *)

Severities == {"high", "medium", "low"}

Violation(sev) ==
    [severity |-> sev, type |-> "large_code_copy",
     description |-> << >>, timestamp |-> << >>]

Repeat(x, n) == [i \in 1..n |-> x]

CopyRun(n) ==
    [i \in 1..n |-> [event_type |->
        IF i = 1 THEN "code_copied" ELSE "code_copied_from_ai"]]

\* p prompts, c copies, m modifications and one event of another kind
ScoreEvents(p, c, m) ==
    Repeat([event_type |-> "prompt_sent"], p) \o CopyRun(c)
        \o Repeat([event_type |-> "code_modified"], m)
        \o <<[event_type |-> "response_received"]>>

\* prompt counts on both sides of the prompt-frequency threshold
ScorePromptCounts == {0, 20, 21}

\* <<copies, modifications>> on both sides of the copy/modification ratio
ScoreCopyModCounts ==
    {<<0, 0>>, <<0, 1>>, <<3, 0>>, <<2, 1>>, <<3, 1>>, <<5, 2>>}

Scores(vs, evs) ==
    [watch |-> watcher_calculate_risk_score(vs, evs),
     flag |-> sanity_flag_calculate_risk_score(vs, evs)]

SwapAt(s, i) == [s EXCEPT ![i] = s[i + 1], ![i + 1] = s[i]]

NoOutage == [endpoint |-> "none", kind |-> "none"]

\* no session is stored and no tool is called
StoreIdle ==
    /\ interactions = << >>
    /\ file_operations = << >>
    /\ terminal_events = << >>
    /\ submissions = << >>
    /\ code_snapshots = << >>
    /\ outage = NoOutage
    /\ now = 0
    /\ request = [tool |-> "none"]
    /\ response = [tool |-> "none"]
    /\ reads = << >>

\* the scorer is not exercised
ScoreIdle ==
    /\ violations = << >>
    /\ events = << >>
    /\ swaps = 0
    /\ score = [watch |-> 0, flag |-> 0]

\* the aggregators are not exercised
AggregateIdle == aggregate = [checks |-> << >>]

\* no concurrent calls are made
ConcurrentIdle ==
    /\ stores = << >>
    /\ calls = << >>

InitScore ==
    /\ StoreIdle
    /\ violations = << >>
    /\ \E p \in ScorePromptCounts, cm \in ScoreCopyModCounts :
           events = ScoreEvents(p, cm[1], cm[2])
    /\ swaps = 0
    /\ score = Scores(violations, events)
    /\ AggregateIdle
    /\ ConcurrentIdle

AddViolation ==
    /\ Len(violations) < MaxViolations
    /\ \E sev \in Severities :
           violations' = Append(violations, Violation(sev))
    /\ score' = Scores(violations', events)
    /\ UNCHANGED <<events, swaps>>
    /\ UNCHANGED <<serverVars, aggregate, concurrentVars>>

ReplaceViolation ==
    /\ \E i \in DOMAIN violations, sev \in Severities :
           /\ sev # violations[i].severity
           /\ violations' = [violations EXCEPT ![i] = Violation(sev)]
    /\ score' = Scores(violations', events)
    /\ UNCHANGED <<events, swaps>>
    /\ UNCHANGED <<serverVars, aggregate, concurrentVars>>

PermuteViolations ==
    /\ \E i \in 1..(Len(violations) - 1) :
           /\ violations[i] # violations[i + 1]
           /\ violations' = SwapAt(violations, i)
    /\ score' = Scores(violations', events)
    /\ UNCHANGED <<events, swaps>>
    /\ UNCHANGED <<serverVars, aggregate, concurrentVars>>

PermuteEvents ==
    /\ swaps < MaxSwaps
    /\ \E i \in 1..(Len(events) - 1) :
           /\ events[i] # events[i + 1]
           /\ events' = SwapAt(events, i)
    /\ swaps' = swaps + 1
    /\ score' = Scores(violations, events')
    /\ UNCHANGED violations
    /\ UNCHANGED <<serverVars, aggregate, concurrentVars>>

NextScore ==
    \/ AddViolation
    \/ ReplaceViolation
    \/ PermuteViolations
    \/ PermuteEvents

SpecScore == InitScore /\ [][NextScore]_vars

---------------------------------------------------------------------------
(* Claims about the scorers *)

\* C1: for every violation list and event list, the watch-mode and the
\* flag-mode risk scores are integers between 0 and 100.
C1_ScoreInRange ==
    /\ score.watch \in 0..100
    /\ score.flag \in 0..100

\* the cap is reached: four high violations
C1_Witness ==
    /\ Len(violations) = 4
    /\ \A i \in DOMAIN violations : violations[i].severity = "high"
    /\ score.watch = 100
    /\ score.flag = 100

CountSeverity(vs, sev) ==
    Cardinality({ i \in DOMAIN vs : vs[i].severity = sev })

CountEvents(evs, types) ==
    Cardinality({ i \in DOMAIN evs : evs[i].event_type \in types })

\* S of the claim: 30 per high, 15 per medium, 5 per low violation
ClaimS(vs) ==
    30 * CountSeverity(vs, "high") + 15 * CountSeverity(vs, "medium")
        + 5 * CountSeverity(vs, "low")

\* H of the claim in flag-mode
ClaimH(evs) ==
    LET copies == CountEvents(evs, {"code_copied_from_ai", "code_copied"})
        mods == CountEvents(evs, {"code_modified"})
        prompts == CountEvents(evs, {"prompt_sent"})
    IN  (IF copies # 0 /\ mods # 0 /\ copies > 2 * mods THEN 20 ELSE 0)
            + (IF prompts > 20 THEN 15 ELSE 0)

\* C2: the risk score is min(100, S + H), with H = 0 in watch-mode; the cap
\* is applied once, after all the additions.
C2_ScoreFormula ==
    /\ score.watch = Min(100, ClaimS(violations))
    /\ score.flag = Min(100, ClaimS(violations) + ClaimH(events))

\* both heuristics add to a violation sum below the cap, and the cap cuts
C2_Witness ==
    /\ ClaimS(violations) = 90
    /\ ClaimH(events) = 35
    /\ score.flag = 100
    /\ score.watch = 90

SeverityRank(sev) ==
    IF sev = "high" THEN 3 ELSE IF sev = "medium" THEN 2 ELSE 1

\* w is v with one violation inserted
IsInsertion(v, w) ==
    /\ Len(w) = Len(v) + 1
    /\ \E i \in DOMAIN w : v = SubSeq(w, 1, i - 1) \o SubSeq(w, i + 1, Len(w))

\* w is v with one violation replaced by one of equal or higher severity
IsUpgrade(v, w) ==
    /\ Len(w) = Len(v)
    /\ \E i \in DOMAIN v :
           /\ \A j \in DOMAIN v : j # i => w[j] = v[j]
           /\ SeverityRank(w[i].severity) >= SeverityRank(v[i].severity)

\* C3: with the event list fixed, adding a violation or replacing one by a
\* violation of equal or higher severity never decreases either risk score.
C3_Monotone ==
    [][ (events' = events
            /\ (IsInsertion(violations, violations')
                    \/ IsUpgrade(violations, violations')))
        => (score'.watch >= score.watch /\ score'.flag >= score.flag) ]_vars

\* a violation was added on top of a score that was already at the cap
C3_Witness ==
    /\ Len(violations) = 4
    /\ ClaimS(violations) + ClaimH(events) > 130
    /\ score.flag = 100

IsPermutation(s, t) ==
    /\ Len(s) = Len(t)
    /\ \A x \in Range(s) :
           Cardinality({ i \in DOMAIN s : s[i] = x })
               = Cardinality({ i \in DOMAIN t : t[i] = x })

\* C4: permuting the violation list or the event list changes neither the
\* watch-mode nor the flag-mode risk score.
C4_OrderIndependent ==
    [][ (IsPermutation(violations, violations')
            /\ IsPermutation(events, events'))
        => (score'.watch = score.watch /\ score'.flag = score.flag) ]_vars

\* a mixed violation list and a reordered event list, scored below the cap
C4_Witness ==
    /\ swaps > 0
    /\ Cardinality({ violations[i].severity : i \in DOMAIN violations }) = 3
    /\ score.flag < 100
    /\ score.flag > score.watch

---------------------------------------------------------------------------
(* Python str: comparison, lower(), split, `in`, re.search, str(int) *)

\* the characters of the model, in code-point order
CodePoints ==
    <<"\n", " ", "(", ")", "-", ".", "/",
      "0", "1", "2", "3", "4", "5", "6", "7", "8", "9", ":", "=",
      "A", "B", "C", "D", "E", "F", "G", "H", "I", "J", "K", "L", "M",
      "N", "O", "P", "Q", "R", "S", "T", "U", "V", "W", "X", "Y", "Z", "_",
      "a", "b", "c", "d", "e", "f", "g", "h", "i", "j", "k", "l", "m",
      "n", "o", "p", "q", "r", "s", "t", "u", "v", "w", "x", "y", "z">>

OrdTable ==
    [c \in Range(CodePoints) |-> CHOOSE i \in DOMAIN CodePoints : CodePoints[i] = c]

Ord(c) == OrdTable[c]

DigitChars == <<"0", "1", "2", "3", "4", "5", "6", "7", "8", "9">>

IsDigit(c) == c \in Range(DigitChars)

DigitValue(c) == (CHOOSE i \in DOMAIN DigitChars : DigitChars[i] = c) - 1

\* s < t for two str
StrLess(s, t) ==
    LET n == Min(Len(s), Len(t))
        differ == { i \in 1..n : s[i] # t[i] }
    IN  IF differ = {} THEN Len(s) < Len(t)
        ELSE LET i == CHOOSE j \in differ : \A k \in differ : j <= k
             IN  Ord(s[i]) < Ord(t[i])

LowerChar(c) ==
    LET i == Ord(c)
    IN  IF i >= Ord("A") /\ i <= Ord("Z")
        THEN CodePoints[i + (Ord("a") - Ord("A"))]
        ELSE c

Lower(s) == [i \in DOMAIN s |-> LowerChar(s[i])]

\* str(n) for an int n >= 0
RECURSIVE StrInt(_)
StrInt(n) ==
    IF n < 10 THEN <<DigitChars[n + 1]>>
    ELSE StrInt(n \div 10) \o <<DigitChars[(n % 10) + 1]>>

\* str(v) for a str or None
Str(v) == IF v = None THEN <<"N", "o", "n", "e">> ELSE v

\* bool(v) for a str or None
Truthy(v) == v # None /\ v # << >>

\* len(s.split("\n"))
CountLines(s) == Cardinality({ i \in DOMAIN s : s[i] = "\n" }) + 1

MatchAt(s, i, w) ==
    /\ i + Len(w) - 1 <= Len(s)
    /\ \A k \in DOMAIN w : s[i + k - 1] = w[k]

\* sub in s
Contains(sub, s) == \E i \in 1..(Len(s) - Len(sub) + 1) : MatchAt(s, i, sub)

NoNewline(s, from, to) == \A k \in from..to : s[k] # "\n"

\* re.search("w1.*w2.*w3", s): `.` matches any character but a newline
RegexSearch(pattern, s) ==
    LET w1 == pattern[1]
        w2 == pattern[2]
        w3 == pattern[3]
    IN  \E i \in DOMAIN s :
            /\ MatchAt(s, i, w1)
            /\ \E j \in (i + Len(w1))..Len(s) :
                   /\ MatchAt(s, j, w2)
                   /\ NoNewline(s, i + Len(w1), j - 1)
                   /\ \E k \in (j + Len(w2))..Len(s) :
                          /\ MatchAt(s, k, w3)
                          /\ NoNewline(s, j + Len(w2), k - 1)

AnyPatternMatches(patterns, s) ==
    \E n \in DOMAIN patterns : RegexSearch(patterns[n], s)

---------------------------------------------------------------------------
(* Timestamps *)

\* str(e.get("timestamp", "")): the records come from JSON, so a timestamp
\* is a str, null or absent and never a datetime
TimestampStr(e) == Str(Get(e, "timestamp", << >>))

\* datetime.now().isoformat(), with the clock in seconds of the day
IsoFormat(t) ==
    LET hh == t \div 3600
        mm == (t % 3600) \div 60
        ss == t % 60
    IN  <<DigitChars[(hh \div 10) + 1], DigitChars[(hh % 10) + 1], ":",
          DigitChars[(mm \div 10) + 1], DigitChars[(mm % 10) + 1], ":",
          DigitChars[(ss \div 10) + 1], DigitChars[(ss % 10) + 1]>>

\* the strings dateutil parses here: HH:MM:SS
IsClockString(s) ==
    /\ Len(s) = 8
    /\ s[3] = ":" /\ s[6] = ":"
    /\ \A i \in {1, 2, 4, 5, 7, 8} : IsDigit(s[i])
    /\ DigitValue(s[1]) * 10 + DigitValue(s[2]) < 24
    /\ DigitValue(s[4]) < 6
    /\ DigitValue(s[7]) < 6

\* dateutil.parser.parse(s), in seconds of the day
ParseSeconds(s) ==
    (DigitValue(s[1]) * 10 + DigitValue(s[2])) * 3600
        + (DigitValue(s[4]) * 10 + DigitValue(s[5])) * 60
        + DigitValue(s[7]) * 10 + DigitValue(s[8])

\* mutant: a timestamp is read up to its first eight characters
time_diff_lenient(timestamp1, timestamp2) ==
    LET Clock(t) == IF t # None /\ Len(t) > 8 THEN SubSeq(t, 1, 8) ELSE t
    IN  IF /\ timestamp1 # None /\ timestamp2 # None
           /\ IsClockString(Clock(timestamp1)) /\ IsClockString(Clock(timestamp2))
           /\ ParseSeconds(Clock(timestamp2)) > ParseSeconds(Clock(timestamp1))
        THEN ParseSeconds(Clock(timestamp2)) - ParseSeconds(Clock(timestamp1))
        ELSE 0

\* _time_diff: seconds from timestamp1 to timestamp2 when both parse and the
\* difference is positive; 0 stands for the None it returns otherwise (its
\* callers only test the result for truth)
time_diff(timestamp1, timestamp2) ==
    IF /\ timestamp1 # None /\ timestamp2 # None
       /\ IsClockString(timestamp1) /\ IsClockString(timestamp2)
       /\ ParseSeconds(timestamp2) > ParseSeconds(timestamp1)
    THEN ParseSeconds(timestamp2) - ParseSeconds(timestamp1)
    ELSE 0

---------------------------------------------------------------------------
(* metadata of file-operation and terminal events                          *)
(*   a dict is a record; None is NoneMetadata; a str is                    *)
(*   [serialized |-> j] where j tells what json.loads makes of it          *)

EmptyDict == [k \in {} |-> k]

NoneMetadata == [none |-> TRUE]

NonObject == [non_object |-> TRUE]

SerializedObject(d) == [serialized |-> [kind |-> "object", value |-> d]]

SerializedNonObject == [serialized |-> [kind |-> "non_object"]]

InvalidJson == [serialized |-> [kind |-> "invalid"]]

\* metadata = event.get("metadata", {}), then json.loads when it is a str,
\* with {} on a decode error
LoadMetadata(event) ==
    LET metadata == Get(event, "metadata", EmptyDict)
    IN  IF "serialized" \in DOMAIN metadata
        THEN IF metadata.serialized.kind = "object"
             THEN metadata.serialized.value
             ELSE IF metadata.serialized.kind = "invalid" THEN EmptyDict
             ELSE NonObject
        ELSE metadata

\* metadata.get exists: the value is a dict
HasGet(metadata) ==
    "none" \notin DOMAIN metadata /\ "non_object" \notin DOMAIN metadata

\* metadata.get("filePath", "") or metadata.get("fileName", "")
FilePath(metadata) ==
    LET path == Get(metadata, "filePath", << >>)
    IN  IF Truthy(path) THEN path ELSE Get(metadata, "fileName", << >>)

---------------------------------------------------------------------------
(* utils/api_client: the Event Store client *)

Endpoints ==
    {"interactions", "submissions", "code-snapshots", "file-operations",
     "terminal-events"}

\* how a request to the Event Store fails: requests.get raises (connection
\* error, timeout) or raise_for_status raises on a status that is not 2xx
FailureKinds == {"transport", "status"}

\* mutant: a failed request is not noticed
make_request_unchecked(endpoint, records) == records

\* _make_request: the records the endpoint returns, [] when the request
\* raises a RequestException
make_request(endpoint, records) ==
    IF outage.endpoint = endpoint /\ outage.kind \in FailureKinds
    THEN << >>
    ELSE records

get_interactions == make_request("interactions", interactions)

get_submissions == make_request("submissions", submissions)

get_code_snapshots == make_request("code-snapshots", code_snapshots)

get_file_operations == make_request("file-operations", file_operations)

get_terminal_events == make_request("terminal-events", terminal_events)

\* str(e) of an exception, abstracted to the name of its class
TypeError == <<"T", "y", "p", "e", "E", "r", "r", "o", "r">>

AttributeError == <<"A", "t", "t", "r", "i", "b", "u", "t", "e", "E", "r", "r", "o", "r">>

NoException == << >>

---------------------------------------------------------------------------
(* agent_6_watcher *)

\* len((copy_event.get("code_snippet", "") or "").split("\n"))
SnippetLines(copy_event) ==
    LET code_snippet == Get(copy_event, "code_snippet", << >>)
    IN  CountLines(IF Truthy(code_snippet) THEN code_snippet ELSE << >>)

\* mutant: the threshold is inclusive
IsLargeCopyInclusive(copy_event) == SnippetLines(copy_event) >= 50

IsLargeCopy(copy_event) == SnippetLines(copy_event) > 50

LargeCopyViolation(copy_event) ==
    LET lines == SnippetLines(copy_event)
    IN  [severity |-> IF lines > 100 THEN "high" ELSE "medium",
         type |-> "large_code_copy",
         description |->
             <<"C", "o", "p", "i", "e", "d", " ">> \o StrInt(lines) \o <<" ", "l", "i", "n", "e", "s", " ", "o", "f", " ", "c", "o", "d", "e", " ", "f", "r", "o", "m", " ", "A", "I">>,
         timestamp |-> TimestampStr(copy_event)]

\* event_type == "prompt_sent" and e.get("prompt_text")
IsTextPrompt(e) == IsPrompt(e) /\ Truthy(Get(e, "prompt_text", None))

red_flag_patterns ==
    << <<<<"s", "o", "l", "v", "e">>, <<"e", "n", "t", "i", "r", "e">>, <<"p", "r", "o", "b", "l", "e", "m">>>>,
       <<<<"w", "r", "i", "t", "e">>, <<"c", "o", "m", "p", "l", "e", "t", "e">>, <<"c", "o", "d", "e">>>>,
       <<<<"g", "i", "v", "e">>, <<"f", "u", "l", "l">>, <<"s", "o", "l", "u", "t", "i", "o", "n">>>>,
       <<<<"d", "o">>, <<"w", "h", "o", "l", "e">>, <<"t", "h", "i", "n", "g">>>> >>

IsSolutionRequest(prompt_event) ==
    AnyPatternMatches(red_flag_patterns, Lower(prompt_event.prompt_text))

SolutionRequestViolation(prompt_event) ==
    [severity |-> "high",
     type |-> "solution_request",
     description |-> <<"C", "a", "n", "d", "i", "d", "a", "t", "e", " ", "a", "s", "k", "e", "d", " ", "A", "I", " ", "t", "o", " ", "s", "o", "l", "v", "e", " ", "t", "h", "e", " ", "e", "n", "t", "i", "r", "e", " ", "p", "r", "o", "b", "l", "e", "m">>,
     timestamp |-> TimestampStr(prompt_event)]

suspicious_files == <<<<"t", "e", "s", "t">>, <<"s", "o", "l", "u", "t", "i", "o", "n">>, <<"a", "n", "s", "w", "e", "r">>, <<"c", "h", "e", "a", "t">>>>

IsSuspiciousFileOperation(file_op) ==
    LET file_path == FilePath(LoadMetadata(file_op))
    IN  \E n \in DOMAIN suspicious_files :
            Contains(suspicious_files[n], Lower(file_path))

SuspiciousFileViolation(file_op) ==
    [severity |-> "medium",
     type |-> "suspicious_file_operation",
     description |->
         <<"S", "u", "s", "p", "i", "c", "i", "o", "u", "s", " ", "f", "i", "l", "e", " ", "o", "p", "e", "r", "a", "t", "i", "o", "n", ":", " ">> \o FilePath(LoadMetadata(file_op)),
     timestamp |-> TimestampStr(file_op)]

MapSeq(s, Op(_)) == [i \in DOMAIN s |-> Op(s[i])]

watcher_detect_violations(inter, file_ops, term_events) ==
    LET copy_events == SelectSeq(inter, IsCopy)
        prompts == SelectSeq(inter, IsTextPrompt)
    IN  MapSeq(SelectSeq(copy_events, IsLargeCopy), LargeCopyViolation)
            \o MapSeq(SelectSeq(prompts, IsSolutionRequest),
                      SolutionRequestViolation)
            \o MapSeq(SelectSeq(file_ops, IsSuspiciousFileOperation),
                      SuspiciousFileViolation)

IsHighSeverity(v) == Get(v, "severity", "") = "high"

\* mutant: a score of 70 is critical too
IsCriticalInclusive(risk_score) == risk_score >= 70

IsCritical(risk_score) == risk_score > 70

generate_alerts(vs, risk_score) ==
    LET high_severity == SelectSeq(vs, IsHighSeverity)
    IN  (IF IsCritical(risk_score)
         THEN <<[severity |-> "critical",
                 message |-> <<"H", "i", "g", "h", " ", "r", "i", "s", "k", " ", "d", "e", "t", "e", "c", "t", "e", "d", ":", " ">> \o StrInt(Len(vs))
                                 \o <<" ", "v", "i", "o", "l", "a", "t", "i", "o", "n", "s">>,
                 type |-> "risk_alert"]>>
         ELSE << >>)
        \o
        (IF Len(high_severity) > 0
         THEN <<[severity |-> "high",
                 message |-> StrInt(Len(high_severity))
                                 \o <<" ", "h", "i", "g", "h", "-", "s", "e", "v", "e", "r", "i", "t", "y", " ", "v", "i", "o", "l", "a", "t", "i", "o", "n", "s", " ", "d", "e", "t", "e", "c", "t", "e", "d">>,
                 type |-> "violation_alert"]>>
         ELSE << >>)

\* a tag used as text
TagText(tag) == <<tag>>

get_event_description(event) ==
    LET event_type == EventType(event)
    IN  IF event_type = "prompt_sent"
        THEN LET prompt_text == Get(event, "prompt_text", << >>)
             IN  IF Len(prompt_text) > 50
                 THEN <<"A", "s", "k", "e", "d", ":", " ">> \o SubSeq(prompt_text, 1, 50) \o <<".", ".", ".">>
                 ELSE <<"A", "s", "k", "e", "d", ":", " ">> \o prompt_text
        ELSE IF event_type = "response_received"
        THEN <<"R", "e", "c", "e", "i", "v", "e", "d", " ", "A", "I", " ", "r", "e", "s", "p", "o", "n", "s", "e">>
        ELSE IF event_type \in {"code_copied_from_ai", "code_copied"}
        THEN <<"C", "o", "p", "i", "e", "d", " ", "c", "o", "d", "e", " ", "(">>
                 \o StrInt(CountLines(Get(event, "code_snippet", << >>)))
                 \o <<" ", "l", "i", "n", "e", "s", ")">>
        ELSE IF event_type = "code_modified"
        THEN <<"M", "o", "d", "i", "f", "i", "e", "d", " ", "c", "o", "d", "e">>
        ELSE TagText(event_type)

get_file_event_description(event) ==
    LET event_type == EventType(event)
        metadata == LoadMetadata(event)
        file_path == Str(FilePath(metadata))
        kind == IF Get(metadata, "isDirectory", FALSE)
                THEN <<"f", "o", "l", "d", "e", "r">> ELSE <<"f", "i", "l", "e">>
    IN  IF event_type = "file_created"
        THEN <<"C", "r", "e", "a", "t", "e", "d", " ">> \o kind \o <<":", " ">> \o file_path
        ELSE IF event_type = "file_modified"
        THEN <<"M", "o", "d", "i", "f", "i", "e", "d", ":", " ">> \o file_path
        ELSE IF event_type = "file_deleted"
        THEN <<"D", "e", "l", "e", "t", "e", "d", " ">> \o kind \o <<":", " ">> \o file_path
        ELSE IF event_type = "file_renamed"
        THEN <<"R", "e", "n", "a", "m", "e", "d", ":", " ">> \o file_path \o <<" ", "->", " ">>
                 \o Str(Get(metadata, "newName", << >>))
        ELSE TagText(event_type)

get_terminal_event_description(event) ==
    LET event_type == EventType(event)
        metadata == LoadMetadata(event)
    IN  IF event_type = "terminal_spawned"
        THEN <<"N", "e", "w", " ", "t", "e", "r", "m", "i", "n", "a", "l", ":", " ">>
                 \o Str(Get(metadata, "terminalName", <<"T", "e", "r", "m", "i", "n", "a", "l">>))
        ELSE IF event_type = "command_executed"
        THEN <<"R", "a", "n", ":", " ">> \o Str(Get(metadata, "command", <<"c", "o", "m", "m", "a", "n", "d">>))
        ELSE TagText(event_type)

InteractionEntry(event) ==
    [type |-> EventType(event),
     timestamp |-> TimestampStr(event),
     description |-> get_event_description(event)]

FileEntry(event) ==
    [type |-> EventType(event),
     timestamp |-> TimestampStr(event),
     description |-> get_file_event_description(event)]

TerminalEntry(event) ==
    [type |-> EventType(event),
     timestamp |-> TimestampStr(event),
     description |-> get_terminal_event_description(event)]

\* mutant: an entry goes before the entries of equal timestamp
InsertBeforeEqual(sorted, x) ==
    LET before == { i \in DOMAIN sorted : StrLess(sorted[i].timestamp, x.timestamp) }
        n == Cardinality(before)
    IN  SubSeq(sorted, 1, n) \o <<x>> \o SubSeq(sorted, n + 1, Len(sorted))

\* one step of the stable sort: x goes after every entry that is not greater
InsertByTimestamp(sorted, x) ==
    LET notAfter == { i \in DOMAIN sorted : ~StrLess(x.timestamp, sorted[i].timestamp) }
        n == Cardinality(notAfter)
    IN  SubSeq(sorted, 1, n) \o <<x>> \o SubSeq(sorted, n + 1, Len(sorted))

\* timeline.sort(key=lambda x: x.get("timestamp", "")): list.sort is stable
RECURSIVE SortTimeline(_, _)
SortTimeline(sorted, rest) ==
    IF rest = << >> THEN sorted
    ELSE SortTimeline(InsertByTimestamp(sorted, Head(rest)), Tail(rest))

build_timeline(inter, file_ops, term_events) ==
    SortTimeline(<< >>,
        MapSeq(inter, InteractionEntry) \o MapSeq(file_ops, FileEntry)
            \o MapSeq(term_events, TerminalEntry))

CountType(s, event_type) ==
    Cardinality({ i \in DOMAIN s : EventType(s[i]) = event_type })

calculate_metrics(inter, file_ops, term_events) ==
    [totalInteractions |-> Len(inter),
     totalFileOperations |-> Len(file_ops),
     totalTerminalEvents |-> Len(term_events),
     fileCreates |-> CountType(file_ops, "file_created"),
     fileModifies |-> CountType(file_ops, "file_modified"),
     fileDeletes |-> CountType(file_ops, "file_deleted"),
     commandsExecuted |-> CountType(term_events, "command_executed")]

\* the statements of watch_session that raise on these records
WatcherRaises(inter, file_ops, term_events) ==
    \/ \E i \in DOMAIN file_ops :
           \/ ~HasGet(LoadMetadata(file_ops[i]))
           \/ FilePath(LoadMetadata(file_ops[i])) = None
    \/ \E i \in DOMAIN inter :
           \/ IsPrompt(inter[i]) /\ Get(inter[i], "prompt_text", << >>) = None
           \/ IsCopy(inter[i]) /\ Get(inter[i], "code_snippet", << >>) = None
    \/ \E i \in DOMAIN term_events :
           /\ EventType(term_events[i]) \in {"terminal_spawned", "command_executed"}
           /\ ~HasGet(LoadMetadata(term_events[i]))

\* the first exception watch_session raises on these records: the file
\* operations are read first (metadata.get, file_path.lower), then the
\* descriptions of the interactions (len(None), None.split) and of the
\* terminal events (metadata.get)
WatcherException(inter, file_ops, term_events) ==
    IF ~WatcherRaises(inter, file_ops, term_events) THEN NoException
    ELSE IF \E i \in DOMAIN file_ops :
                \/ ~HasGet(LoadMetadata(file_ops[i]))
                \/ FilePath(LoadMetadata(file_ops[i])) = None
    THEN AttributeError
    ELSE LET bad == { i \in DOMAIN inter :
                        \/ IsPrompt(inter[i])
                               /\ Get(inter[i], "prompt_text", << >>) = None
                        \/ IsCopy(inter[i])
                               /\ Get(inter[i], "code_snippet", << >>) = None }
         IN  IF bad # {} /\ IsPrompt(inter[CHOOSE i \in bad : \A j \in bad : i <= j])
             THEN TypeError
             ELSE AttributeError

\* mutant: the exception leaves watch_session and reaches handle_call_tool
watch_session_error_propagated(arguments, message) ==
    [tool |-> "watch_session", args |-> arguments, error |-> message]

\* the except clause of watch_session
watch_session_error(arguments, message) ==
    [tool |-> "watch_session", args |-> arguments,
     success |-> FALSE,
     violations |-> << >>,
     riskScore |-> 0,
     explanation |-> <<"E", "r", "r", "o", "r", ":", " ">> \o message]

WatchedFileOperations(arguments) ==
    IF Get(arguments, "includeFileOperations", TRUE)
    THEN get_file_operations ELSE << >>

WatchedTerminalEvents(arguments) ==
    IF Get(arguments, "includeTerminalEvents", TRUE)
    THEN get_terminal_events ELSE << >>

\* the Event Store endpoints watch_session reads, in order
WatchReads(arguments) ==
    <<"interactions">>
        \o (IF Get(arguments, "includeFileOperations", TRUE)
            THEN <<"file-operations">> ELSE << >>)
        \o (IF Get(arguments, "includeTerminalEvents", TRUE)
            THEN <<"terminal-events">> ELSE << >>)

\* watch_session once its records are fetched
watch_session_on(arguments, inter, file_ops, term_events) ==
    LET args == arguments
    IN  IF WatcherRaises(inter, file_ops, term_events)
        THEN watch_session_error(
                 arguments, WatcherException(inter, file_ops, term_events))
        ELSE LET vs == watcher_detect_violations(inter, file_ops, term_events)
                 risk_score == watcher_calculate_risk_score(vs, inter)
             IN  [tool |-> "watch_session", args |-> args,
                  success |-> TRUE,
                  violations |-> vs,
                  riskScore |-> risk_score,
                  alerts |-> generate_alerts(vs, risk_score),
                  timeline |-> build_timeline(inter, file_ops, term_events),
                  metrics |-> calculate_metrics(inter, file_ops, term_events),
                  confidence |-> 80,
                  evidence |-> [i \in DOMAIN vs |-> Get(vs[i], "description", << >>)],
                  explanation |-> StrInt(Len(vs)) \o <<" ", "v", "i", "o", "l", "a", "t", "i", "o", "n", "s", " ", "d", "e", "t", "e", "c", "t", "e", "d">>]

\* watch_session(session_id, include_file_operations,
\* include_terminal_events) on the logs the Event Store returns
watch_session(arguments) ==
    watch_session_on(arguments, get_interactions,
                     WatchedFileOperations(arguments),
                     WatchedTerminalEvents(arguments))

---------------------------------------------------------------------------
(* agent_8_sanity_flag *)

solution_patterns ==
    << <<<<"s", "o", "l", "v", "e">>, <<"e", "n", "t", "i", "r", "e">>, <<"p", "r", "o", "b", "l", "e", "m">>>>,
       <<<<"w", "r", "i", "t", "e">>, <<"c", "o", "m", "p", "l", "e", "t", "e">>, <<"s", "o", "l", "u", "t", "i", "o", "n">>>>,
       <<<<"g", "i", "v", "e">>, <<"f", "u", "l", "l">>, <<"c", "o", "d", "e">>>>,
       <<<<"d", "o">>, <<"w", "h", "o", "l", "e">>, <<"t", "h", "i", "n", "g">>>>,
       <<<<"c", "o", "m", "p", "l", "e", "t", "e">>, <<"f", "o", "r">>, <<"m", "e">>>> >>

IsSolutionRequestPattern(prompt) ==
    AnyPatternMatches(solution_patterns, Lower(prompt.prompt_text))

\* mutant: the violation carries the type of the watch-mode rule
SolutionPatternViolationWatchType(prompt) ==
    [severity |-> "high",
     type |-> "solution_request",
     description |-> <<"C", "a", "n", "d", "i", "d", "a", "t", "e", " ", "r", "e", "q", "u", "e", "s", "t", "e", "d", " ", "c", "o", "m", "p", "l", "e", "t", "e", " ", "s", "o", "l", "u", "t", "i", "o", "n">>,
     timestamp |-> TimestampStr(prompt)]

SolutionPatternViolation(prompt) ==
    [severity |-> "high",
     type |-> "solution_request_pattern",
     description |-> <<"C", "a", "n", "d", "i", "d", "a", "t", "e", " ", "r", "e", "q", "u", "e", "s", "t", "e", "d", " ", "c", "o", "m", "p", "l", "e", "t", "e", " ", "s", "o", "l", "u", "t", "i", "o", "n">>,
     timestamp |-> TimestampStr(prompt)]

\* the `prompts` list of _detect_violations
TimingPrompts(evs) == SelectSeq(evs, IsTextPrompt)

\* mutant: the timing rule looks at the modifications only
IsSuspiciousTimingAnyPrompts(n_modifications, n_prompts) ==
    n_modifications < 3

IsSuspiciousTiming(n_modifications, n_prompts) ==
    n_modifications < 3 /\ n_prompts > 10

sanity_flag_detect_violations(evs, clock) ==
    LET prompts == TimingPrompts(evs)
        copy_events == SelectSeq(evs, IsCopy)
        modifications == SelectSeq(evs, IsModification)
    IN  MapSeq(SelectSeq(prompts, IsSolutionRequestPattern),
               SolutionPatternViolation)
        \o
        (IF Len(copy_events) > 5
         THEN <<[severity |-> "high",
                 type |-> "excessive_copying",
                 description |-> <<"E", "x", "c", "e", "s", "s", "i", "v", "e", " ", "c", "o", "d", "e", " ", "c", "o", "p", "y", "i", "n", "g", ":", " ">>
                     \o StrInt(Len(copy_events)) \o <<" ", "c", "o", "p", "y", " ", "e", "v", "e", "n", "t", "s">>,
                 timestamp |-> IsoFormat(clock)]>>
         ELSE << >>)
        \o
        (IF IsSuspiciousTiming(Len(modifications), Len(prompts))
         THEN <<[severity |-> "medium",
                 type |-> "suspicious_timing",
                 description |->
                     <<"V", "e", "r", "y", " ", "f", "e", "w", " ", "m", "o", "d", "i", "f", "i", "c", "a", "t", "i", "o", "n", "s", " ", "c", "o", "m", "p", "a", "r", "e", "d", " ", "t", "o", " ", "p", "r", "o", "m", "p", "t", "s", " ", "(", "p", "o", "t", "e", "n", "t", "i", "a", "l", " ", "c", "o", "p", "y", "-", "p", "a", "s", "t", "e", ")">>,
                 timestamp |-> IsoFormat(clock)]>>
         ELSE << >>)

\* min/max/sorted over key=lambda e: e.get("timestamp", datetime.now()):
\* with two or more events the keys are compared, and None compares with
\* nothing, a datetime (absent timestamp) not with a str
TimestampKeysRaise(evs) ==
    /\ Len(evs) >= 2
    /\ \/ \E i \in DOMAIN evs : Get(evs[i], "timestamp", << >>) = None
       \/ /\ \E i \in DOMAIN evs : "timestamp" \notin DOMAIN evs[i]
          /\ \E i \in DOMAIN evs : "timestamp" \in DOMAIN evs[i]

HasTimestamp(e) == "timestamp" \in DOMAIN e

\* min(events, key=...): the first event of least key; the keys of events
\* without timestamp are successive readings of the clock
MinEvent(evs) ==
    IF \A i \in DOMAIN evs : ~HasTimestamp(evs[i]) THEN evs[1]
    ELSE evs[CHOOSE i \in DOMAIN evs :
                 /\ \A j \in DOMAIN evs : ~StrLess(evs[j].timestamp, evs[i].timestamp)
                 /\ \A j \in 1..(i - 1) : StrLess(evs[i].timestamp, evs[j].timestamp)]

\* max(events, key=...): the first event of greatest key
MaxEvent(evs) ==
    IF \A i \in DOMAIN evs : ~HasTimestamp(evs[i]) THEN evs[Len(evs)]
    ELSE evs[CHOOSE i \in DOMAIN evs :
                 /\ \A j \in DOMAIN evs : ~StrLess(evs[i].timestamp, evs[j].timestamp)
                 /\ \A j \in 1..(i - 1) : StrLess(evs[j].timestamp, evs[i].timestamp)]

\* mutant: a score of 99 counts as perfect
IsPerfectNearly(s) == Get(s, "score", 0) >= 99

IsPerfect(s) == Get(s, "score", 0) = 100

\* mutant: two modifications are many
ManyModificationsOverOne(modifications) == Len(modifications) > 1

\* len(modifications) > 10
ManyModifications(modifications) == Len(modifications) > 10

detect_red_flags(evs, subs) ==
    LET modifications == SelectSeq(evs, IsModification)
        copies == SelectSeq(evs, IsCopy)
        span == IF Len(evs) > 0
                THEN time_diff(Get(MinEvent(evs), "timestamp", None),
                               Get(MaxEvent(evs), "timestamp", None))
                ELSE 0
    IN  (IF Len(subs) > 0 /\ Len(SelectSeq(subs, IsPerfect)) > 0
            /\ Len(modifications) < 3
         THEN <<[type |-> "perfect_solution_no_modifications",
                 description |->
                     <<"P", "e", "r", "f", "e", "c", "t", " ", "s", "o", "l", "u", "t", "i", "o", "n", " ", "w", "i", "t", "h", " ", "m", "i", "n", "i", "m", "a", "l", " ", "c", "o", "d", "e", " ", "m", "o", "d", "i", "f", "i", "c", "a", "t", "i", "o", "n", "s">>,
                 severity |-> "high"]>>
         ELSE << >>)
        \o
        (IF Len(evs) > 0 /\ span # 0 /\ span < 300
               /\ ManyModifications(modifications)
         THEN <<[type |-> "rapid_completion",
                 description |->
                     <<"R", "a", "p", "i", "d", " ", "c", "o", "d", "e", " ", "c", "o", "m", "p", "l", "e", "t", "i", "o", "n", " ", "w", "i", "t", "h", " ", "m", "a", "n", "y", " ", "m", "o", "d", "i", "f", "i", "c", "a", "t", "i", "o", "n", "s">>,
                 severity |-> "medium"]>>
         ELSE << >>)
        \o
        (IF Len(copies) > 0 /\ Len(modifications) = 0
         THEN <<[type |-> "no_modifications_only_copies",
                 description |->
                     <<"N", "o", " ", "c", "o", "d", "e", " ", "m", "o", "d", "i", "f", "i", "c", "a", "t", "i", "o", "n", "s", ",", " ", "o", "n", "l", "y", " ", "c", "o", "p", "y", "-", "p", "a", "s", "t", "e", " ", "o", "p", "e", "r", "a", "t", "i", "o", "n", "s">>,
                 severity |-> "high"]>>
         ELSE << >>)

InsertEventByTimestamp(sorted, e) ==
    LET notAfter == { i \in DOMAIN sorted : ~StrLess(e.timestamp, sorted[i].timestamp) }
        n == Cardinality(notAfter)
    IN  SubSeq(sorted, 1, n) \o <<e>> \o SubSeq(sorted, n + 1, Len(sorted))

RECURSIVE SortEvents(_, _)
SortEvents(sorted, rest) ==
    IF rest = << >> THEN sorted
    ELSE SortEvents(InsertEventByTimestamp(sorted, Head(rest)), Tail(rest))

\* sorted(events, key=...): stable; events without timestamp keep their order
SortedEvents(evs) ==
    IF \A i \in DOMAIN evs : ~HasTimestamp(evs[i]) THEN evs
    ELSE SortEvents(<< >>, evs)

RECURSIVE SumSeq(_)
SumSeq(s) == IF s = << >> THEN 0 ELSE Head(s) + SumSeq(Tail(s))

IsGap(gap) == gap # 0

detect_anomalies(evs) ==
    IF Len(evs) < 2 THEN << >>
    ELSE
        LET sorted_events == SortedEvents(evs)
            all_gaps == [i \in 1..(Len(evs) - 1) |->
                            time_diff(Get(sorted_events[i], "timestamp", None),
                                      Get(sorted_events[i + 1], "timestamp", None))]
            gaps == SelectSeq(all_gaps, IsGap)
        IN  IF Len(gaps) = 0 THEN << >>
            \* avg_gap = sum(gaps) / len(gaps)
            ELSE IF SumSeq(gaps) < 5 * Len(gaps)
            THEN <<[type |-> "rapid_fire_events",
                    description |-> <<"E", "v", "e", "n", "t", "s", " ", "o", "c", "c", "u", "r", "r", "i", "n", "g", " ", "i", "n", " ", "r", "a", "p", "i", "d", " ", "s", "u", "c", "c", "e", "s", "s", "i", "o", "n">>,
                    severity |-> "medium"]>>
            ELSE IF SumSeq(gaps) > 3600 * Len(gaps)
            THEN <<[type |-> "long_inactivity",
                    description |-> <<"L", "o", "n", "g", " ", "p", "e", "r", "i", "o", "d", "s", " ", "o", "f", " ", "i", "n", "a", "c", "t", "i", "v", "i", "t", "y", " ", "d", "e", "t", "e", "c", "t", "e", "d">>,
                    severity |-> "low"]>>
            ELSE << >>

HasCode(s) == Truthy(Get(s, "code", None))

SubmissionCode(s) == s.code

\* codes = [s.get("code", "") for s in submissions if s.get("code")]
SubmissionCodes(subs) == MapSeq(SelectSeq(subs, HasCode), SubmissionCode)

\* mutant: two submissions are not enough
HasIdenticalSubmissionsOverTwo(subs) ==
    LET codes == SubmissionCodes(subs)
    IN  Len(subs) > 2 /\ Cardinality(Range(codes)) < Len(codes)

\* len(submissions) > 1 and len(set(codes)) < len(codes)
HasIdenticalSubmissions(subs) ==
    LET codes == SubmissionCodes(subs)
    IN  Len(subs) > 1 /\ Cardinality(Range(codes)) < Len(codes)

IsResponse(e) == EventType(e) = "response_received"

\* mutant: the snippet has to be the whole text of a response
MatchingCopiesEqual(evs) ==
    LET responses == SelectSeq(evs, IsResponse)
        Matches(copy_event) ==
            LET copied_code == Get(copy_event, "code_snippet", << >>)
            IN  \E r \in DOMAIN responses :
                    /\ Truthy(copied_code)
                    /\ Get(responses[r], "response_text", << >>) = copied_code
    IN  SelectSeq(SelectSeq(evs, IsCopy), Matches)

\* mutant: the confidence of the checks adds up
RaiseConfidenceAdditive(confidence, level) == confidence + level

\* analysis["confidence"] = max(analysis["confidence"], 70)
RaiseConfidence(confidence, level) == Max(confidence, level)

\* the copy events whose snippet occurs in the text of some response
MatchingCopies(evs) ==
    LET responses == SelectSeq(evs, IsResponse)
        Matches(copy_event) ==
            LET copied_code == Get(copy_event, "code_snippet", << >>)
            IN  \E r \in DOMAIN responses :
                    LET response_text == Get(responses[r], "response_text", << >>)
                    IN  /\ Truthy(copied_code)
                        /\ Truthy(response_text)
                        /\ Contains(copied_code, response_text)
    IN  SelectSeq(SelectSeq(evs, IsCopy), Matches)

analyze_plagiarism(subs, evs) ==
    LET identical == HasIdenticalSubmissions(subs)
        matching == MatchingCopies(evs)
    IN  [suspicious |-> identical \/ Len(matching) > 0,
         patterns |->
             (IF identical THEN <<"identical_submissions">> ELSE << >>)
                 \o [i \in DOMAIN matching |-> "code_matches_ai_response"],
         confidence |->
             LET first == IF identical THEN 80 ELSE 0
             IN  IF Len(matching) > 0 THEN RaiseConfidence(first, 70) ELSE first]

\* mutant: five violations are too many already
TooManyViolationsInclusive(vs) == Len(vs) >= 5

TooManyViolations(vs) == Len(vs) > 5

generate_sanity_checks(vs, red_flags, anomalies) ==
    LET high_severity_flags == SelectSeq(red_flags, IsHighSeverity)
    IN  <<IF TooManyViolations(vs)
          THEN [check |-> "violation_count", status |-> "failed",
                message |-> <<"T", "o", "o", " ", "m", "a", "n", "y", " ", "v", "i", "o", "l", "a", "t", "i", "o", "n", "s", ":", " ">> \o StrInt(Len(vs))]
          ELSE [check |-> "violation_count", status |-> "passed",
                message |-> <<"V", "i", "o", "l", "a", "t", "i", "o", "n", " ", "c", "o", "u", "n", "t", " ", "a", "c", "c", "e", "p", "t", "a", "b", "l", "e", ":", " ">> \o StrInt(Len(vs))],
          IF Len(red_flags) > 0
          THEN IF Len(high_severity_flags) > 0
               THEN [check |-> "red_flags", status |-> "failed",
                     message |-> StrInt(Len(high_severity_flags))
                         \o <<" ", "h", "i", "g", "h", "-", "s", "e", "v", "e", "r", "i", "t", "y", " ", "r", "e", "d", " ", "f", "l", "a", "g", "s", " ", "d", "e", "t", "e", "c", "t", "e", "d">>]
               ELSE [check |-> "red_flags", status |-> "warning",
                     message |-> StrInt(Len(red_flags)) \o <<" ", "r", "e", "d", " ", "f", "l", "a", "g", "s", " ", "d", "e", "t", "e", "c", "t", "e", "d">>]
          ELSE [check |-> "red_flags", status |-> "passed",
                message |-> <<"N", "o", " ", "r", "e", "d", " ", "f", "l", "a", "g", "s", " ", "d", "e", "t", "e", "c", "t", "e", "d">>],
          IF Len(anomalies) > 0
          THEN [check |-> "anomalies", status |-> "warning",
                message |-> StrInt(Len(anomalies)) \o <<" ", "a", "n", "o", "m", "a", "l", "i", "e", "s", " ", "d", "e", "t", "e", "c", "t", "e", "d">>]
          ELSE [check |-> "anomalies", status |-> "passed",
                message |-> <<"N", "o", " ", "a", "n", "o", "m", "a", "l", "i", "e", "s", " ", "d", "e", "t", "e", "c", "t", "e", "d">>]>>

\* the events flag_sanity_checks analyses: the `events` argument unless it
\* is absent or empty, else the three logs the Event Store returns
EventsOf(arguments, inter, file_ops, term_events) ==
    LET events_arg == Get(arguments, "events", << >>)
    IN  IF events_arg = << >>
        THEN inter \o file_ops \o term_events
        ELSE events_arg

EventsToAnalyse(arguments) ==
    EventsOf(arguments, get_interactions, get_file_operations,
             get_terminal_events)

\* the Event Store endpoints flag_sanity_checks reads, in order
FlagReads(arguments) ==
    (IF Get(arguments, "events", << >>) = << >>
     THEN <<"interactions", "file-operations", "terminal-events">>
     ELSE << >>)
        \o <<"submissions">>

\* the except clause of flag_sanity_checks
flag_sanity_checks_error(arguments, message) ==
    [tool |-> "flag_sanity_checks", args |-> arguments,
     success |-> FALSE,
     explanation |-> <<"E", "r", "r", "o", "r", ":", " ">> \o message]

\* flag_sanity_checks once its records are fetched, called at time `clock`
flag_sanity_checks_on(arguments, evs, subs, clock) ==
        IF TimestampKeysRaise(evs)
        THEN flag_sanity_checks_error(arguments, TypeError)
        ELSE LET vs == sanity_flag_detect_violations(evs, clock)
                 red_flags == detect_red_flags(evs, subs)
                 anomalies == detect_anomalies(evs)
             IN  [tool |-> "flag_sanity_checks", args |-> arguments,
                  success |-> TRUE,
                  violations |-> vs,
                  riskScore |-> sanity_flag_calculate_risk_score(vs, evs),
                  redFlags |-> red_flags,
                  anomalies |-> anomalies,
                  plagiarismAnalysis |-> analyze_plagiarism(subs, evs),
                  sanityChecks |-> generate_sanity_checks(vs, red_flags, anomalies),
                  confidence |-> 85,
                  explanation |-> <<"R", "i", "s", "k", " ", "a", "s", "s", "e", "s", "s", "m", "e", "n", "t", " ", "c", "o", "m", "p", "l", "e", "t", "e", "d", ":", " ">>
                      \o StrInt(Len(vs)) \o <<" ", "v", "i", "o", "l", "a", "t", "i", "o", "n", "s", ",", " ">>
                      \o StrInt(Len(red_flags)) \o <<" ", "r", "e", "d", " ", "f", "l", "a", "g", "s">>]

\* flag_sanity_checks(session_id, events) called at time `clock`
flag_sanity_checks_at(arguments, clock) ==
    flag_sanity_checks_on(arguments, EventsToAnalyse(arguments),
                          get_submissions, clock)

\* flag_sanity_checks(session_id, events) on what the Event Store returns
flag_sanity_checks(arguments) == flag_sanity_checks_at(arguments, now)

---------------------------------------------------------------------------
(* agent_7_executor *)

RECURSIVE Gcd(_, _)
Gcd(a, b) == IF b = 0 THEN a ELSE Gcd(b, a % b)

\* the float a / b, kept as a fraction in lowest terms (b > 0)
Fraction(a, b) ==
    LET g == Gcd(a, b)
    IN  [num |-> a \div g, den |-> b \div g]

\* the int 0 returned in place of a ratio
Zero == [num |-> 0, den |-> 1]

\* code.split("\n")
RECURSIVE SplitLines(_)
SplitLines(s) ==
    IF \A i \in DOMAIN s : s[i] # "\n" THEN <<s>>
    ELSE LET k == CHOOSE i \in DOMAIN s :
                      s[i] = "\n" /\ \A j \in 1..(i - 1) : s[j] # "\n"
         IN  <<SubSeq(s, 1, k - 1)>> \o SplitLines(SubSeq(s, k + 1, Len(s)))

Whitespace == {" ", "\t", "\r", "\f"}

\* len(line) - len(line.lstrip())
Indent(line) ==
    IF \A i \in DOMAIN line : line[i] \in Whitespace THEN Len(line)
    ELSE (CHOOSE i \in DOMAIN line :
              line[i] \notin Whitespace
                  /\ \A j \in 1..(i - 1) : line[j] \in Whitespace) - 1

\* line.strip()
Strip(line) ==
    IF \A i \in DOMAIN line : line[i] \in Whitespace THEN << >>
    ELSE LET last == CHOOSE i \in DOMAIN line :
                         line[i] \notin Whitespace
                             /\ \A j \in (i + 1)..Len(line) : line[j] \in Whitespace
         IN  SubSeq(line, Indent(line) + 1, last)

IsNonEmptyLine(line) == Strip(line) # << >>

IsCommentLine(line) ==
    \/ MatchAt(Strip(line), 1, <<"#">>)
    \/ MatchAt(Strip(line), 1, <<"/", "/">>)

RECURSIVE MaxIndent(_)
MaxIndent(lines) ==
    IF lines = << >> THEN 0
    ELSE Max(Indent(Head(lines)), MaxIndent(Tail(lines)))

assess_code_quality(code) ==
    IF ~Truthy(code) THEN EmptyDict
    ELSE
        LET lines == SplitLines(code)
            non_empty_lines == Len(SelectSeq(lines, IsNonEmptyLine))
            comments == Len(SelectSeq(lines, IsCommentLine))
            max_indent == MaxIndent(lines)
        IN  [totalLines |-> Len(lines),
             nonEmptyLines |-> non_empty_lines,
             comments |-> comments,
             commentRatio |-> IF non_empty_lines > 0
                              THEN Fraction(comments, non_empty_lines)
                              ELSE Zero,
             complexity |-> IF max_indent < 8 THEN "low"
                            ELSE IF max_indent < 16 THEN "medium"
                            ELSE "high",
             maxIndentation |-> max_indent]

IsPaste(e) == EventType(e) \in {"code_pasted_from_ai", "code_pasted"}

\* mutant: a paste at the very moment of the copy counts as close
events_close_in_time_inclusive(event1, event2) ==
    LET d == time_diff(Get(event1, "timestamp", None), Get(event2, "timestamp", None))
    IN  \/ (0 < d /\ d < 30)
        \/ Get(event1, "timestamp", None) = Get(event2, "timestamp", None)

\* _events_close_in_time with threshold_seconds = 30
events_close_in_time(event1, event2) ==
    LET d == time_diff(Get(event1, "timestamp", None), Get(event2, "timestamp", None))
    IN  0 < d /\ d < 30

\* the copyPastePatterns entry of a copy event, if a paste is close to it
CopyPasteEntries(copy_event, paste_events) ==
    LET close == { i \in DOMAIN paste_events :
                     events_close_in_time(copy_event, paste_events[i]) }
    IN  IF close = {} THEN << >>
        ELSE LET paste == paste_events[CHOOSE i \in close : \A j \in close : i <= j]
             IN  <<[copyTimestamp |-> Get(copy_event, "timestamp", << >>),
                    pasteTimestamp |-> Get(paste, "timestamp", << >>),
                    timeDiff |-> time_diff(Get(copy_event, "timestamp", None),
                                           Get(paste, "timestamp", None))]>>

RECURSIVE CopyPastePatterns(_, _)
CopyPastePatterns(copy_events, paste_events) ==
    IF copy_events = << >> THEN << >>
    ELSE CopyPasteEntries(Head(copy_events), paste_events)
             \o CopyPastePatterns(Tail(copy_events), paste_events)

InsertNumber(sorted, x) ==
    LET n == Cardinality({ i \in DOMAIN sorted : sorted[i] <= x })
    IN  SubSeq(sorted, 1, n) \o <<x>> \o SubSeq(sorted, n + 1, Len(sorted))

RECURSIVE SortNumbers(_, _)
SortNumbers(sorted, rest) ==
    IF rest = << >> THEN sorted
    ELSE SortNumbers(InsertNumber(sorted, Head(rest)), Tail(rest))

\* timingPatterns: the gaps between consecutive interactions, as logged
TimingPatterns(inter) ==
    IF Len(inter) < 2 THEN EmptyDict
    ELSE
        LET all_gaps == [i \in 1..(Len(inter) - 1) |->
                            time_diff(Get(inter[i], "timestamp", None),
                                      Get(inter[i + 1], "timestamp", None))]
            gaps == SelectSeq(all_gaps, IsGap)
        IN  IF gaps = << >> THEN EmptyDict
            ELSE [averageGap |-> Fraction(SumSeq(gaps), Len(gaps)),
                  medianGap |-> SortNumbers(<< >>, gaps)[(Len(gaps) \div 2) + 1],
                  totalEvents |-> Len(inter)]

\* re.search("w1.*w2", s)
RegexSearchPair(w1, w2, s) ==
    \E i \in DOMAIN s :
        /\ MatchAt(s, i, w1)
        /\ \E j \in (i + Len(w1))..Len(s) :
               /\ MatchAt(s, j, w2)
               /\ NoNewline(s, i + Len(w1), j - 1)

\* re.search(r"solve|complete|write.*code|implement", s)
IsSolutionPrompt(s) ==
    \/ Contains(<<"s", "o", "l", "v", "e">>, s)
    \/ Contains(<<"c", "o", "m", "p", "l", "e", "t", "e">>, s)
    \/ RegexSearchPair(<<"w", "r", "i", "t", "e">>, <<"c", "o", "d", "e">>, s)
    \/ Contains(<<"i", "m", "p", "l", "e", "m", "e", "n", "t">>, s)

\* re.search(r"explain|why|how.*work", s)
IsExplanationPrompt(s) ==
    \/ Contains(<<"e", "x", "p", "l", "a", "i", "n">>, s)
    \/ Contains(<<"w", "h", "y">>, s)
    \/ RegexSearchPair(<<"h", "o", "w">>, <<"w", "o", "r", "k">>, s)

\* re.search(r"review|check|improve", s)
IsReviewPrompt(s) ==
    \/ Contains(<<"r", "e", "v", "i", "e", "w">>, s)
    \/ Contains(<<"c", "h", "e", "c", "k">>, s)
    \/ Contains(<<"i", "m", "p", "r", "o", "v", "e">>, s)

PromptCategory(prompt) ==
    LET prompt_text == Lower(Get(prompt, "prompt_text", << >>))
    IN  IF IsSolutionPrompt(prompt_text) THEN "solution_request"
        ELSE IF IsExplanationPrompt(prompt_text) THEN "explanation_request"
        ELSE IF IsReviewPrompt(prompt_text) THEN "code_review"
        ELSE "other"

CountCategory(prompts, category) ==
    Cardinality({ i \in DOMAIN prompts : PromptCategory(prompts[i]) = category })

extract_patterns(inter) ==
    LET prompts == SelectSeq(inter, IsPrompt)
    IN  [copyPastePatterns |->
             CopyPastePatterns(SelectSeq(inter, IsCopy), SelectSeq(inter, IsPaste)),
         timingPatterns |-> TimingPatterns(inter),
         promptPatterns |->
             [solution_request |-> CountCategory(prompts, "solution_request"),
              explanation_request |-> CountCategory(prompts, "explanation_request"),
              code_review |-> CountCategory(prompts, "code_review"),
              other |-> CountCategory(prompts, "other")]]

analyze_code_integration(inter) ==
    LET modifications == Len(SelectSeq(inter, IsModification))
        copies == Len(SelectSeq(inter, IsCopy))
    IN  [modifications |-> modifications,
         copies |-> copies,
         modificationRatio |-> IF copies > 0
                               THEN Fraction(modifications, copies)
                               ELSE Zero,
         integrationQuality |-> IF modifications > copies THEN "good" ELSE "poor"]

\* min(100, int(ratio * 50 + 50)) with ratio = modifications / prompts
Scale(modifications, prompts) ==
    Min(100, ((50 * modifications) \div prompts) + 50)

calculate_behavior_score(inter) ==
    LET prompts == Len(SelectSeq(inter, IsPrompt))
        modifications == Len(SelectSeq(inter, IsModification))
    IN  IF inter = << >> THEN 50
        ELSE IF prompts > 0 THEN Scale(modifications, prompts)
        ELSE 50

assess_skills(inter, code) ==
    LET prompts == Len(SelectSeq(inter, IsPrompt))
        modifications == Len(SelectSeq(inter, IsModification))
    IN  [problemSolving |-> "medium",
         codeQuality |-> IF ~Truthy(code) THEN "medium"
                         ELSE IF CountLines(code) > 50 THEN "high"
                         ELSE IF CountLines(code) < 10 THEN "low"
                         ELSE "medium",
         independence |-> IF prompts > 0 /\ modifications > 0
                          THEN IF modifications > 2 * prompts THEN "high"
                               ELSE IF 2 * modifications < prompts THEN "low"
                               ELSE "medium"
                          ELSE "medium"]

\* prompt.get("prompt_text", "").lower() raises on a null prompt_text
ExecutorRaises(inter) ==
    \E i \in DOMAIN inter :
        IsPrompt(inter[i]) /\ Get(inter[i], "prompt_text", << >>) = None

\* the except clause of execute_analysis
execute_analysis_error(arguments, message) ==
    [tool |-> "execute_analysis", args |-> arguments,
     success |-> FALSE,
     explanation |-> <<"E", "r", "r", "o", "r", ":", " ">> \o message]

\* mutant: the code of the first snapshot
FirstSnapshotCode(snapshots) == Get(snapshots[1], "code", << >>)

\* snapshots[-1].get("code", "")
LastSnapshotCode(snapshots) == Get(snapshots[Len(snapshots)], "code", << >>)

\* the code execute_analysis analyses: the `code` argument, else the code of
\* the last snapshot, else None
CodeToAnalyse(arguments, snapshots) ==
    LET code == Get(arguments, "code", None)
    IN  IF Truthy(code) THEN code
        ELSE IF snapshots # << >> THEN LastSnapshotCode(snapshots)
        ELSE code

\* the Event Store endpoints execute_analysis reads, in order
ExecuteReads(arguments) ==
    (IF Truthy(Get(arguments, "code", None)) THEN << >>
     ELSE <<"code-snapshots">>)
        \o <<"interactions">>

\* execute_analysis once its records are fetched
execute_analysis_on(arguments, code, inter) ==
    IF ExecutorRaises(inter)
    THEN execute_analysis_error(arguments, AttributeError)
    ELSE [tool |-> "execute_analysis", args |-> arguments,
          success |-> TRUE,
          codeQuality |-> assess_code_quality(code),
          patterns |-> extract_patterns(inter),
          codeIntegration |-> analyze_code_integration(inter),
          behaviorScore |-> calculate_behavior_score(inter),
          skills |-> assess_skills(inter, code),
          confidence |-> 75,
          explanation |-> <<"C", "o", "d", "e", " ", "a", "n", "a", "l", "y", "s", "i", "s", " ", "c", "o", "m", "p", "l", "e", "t", "e", "d">>]

\* execute_analysis(session_id, code) on what the Event Store returns
execute_analysis(arguments) ==
    execute_analysis_on(arguments,
                        CodeToAnalyse(arguments, get_code_snapshots),
                        get_interactions)

---------------------------------------------------------------------------
(* The Event Store's records of a session, and the tool calls on them *)

MaxLog == 2
MaxClock == 1

T1 == <<"0", "0", ":", "0", "0", ":", "0", "5">>
T2 == <<"0", "0", ":", "0", "0", ":", "0", "9">>
T3 == <<"0", "0", ":", "0", "4", ":", "0", "0">>
T4 == <<"0", "0", ":", "0", "0", ":", "1", "4">>

\* timestamps dateutil does not parse
Unparsable == <<"0", "0", ":", "0", "0", ":", "0", "6", "x">>
Undated == <<"l", "a", "t", "e", "r">>

\* a snippet of n lines
SnippetOfLines(n) == [i \in 1..(n - 1) |-> "\n"]

InteractionPool ==
    { [event_type |-> "prompt_sent", timestamp |-> T2,
       prompt_text |-> <<"s", "o", "l", "v", "e", " ", "e", "n", "t", "i", "r", "e", " ", "p", "r", "o", "b", "l", "e", "m">>],
      [event_type |-> "prompt_sent", timestamp |-> T1,
       prompt_text |-> <<"w", "r", "i", "t", "e", " ", "c", "o", "m", "p", "l", "e", "t", "e", " ", "c", "o", "d", "e">>],
      [event_type |-> "prompt_sent", timestamp |-> T1,
       prompt_text |-> <<"C", "o", "m", "p", "l", "e", "t", "e", " ", "i", "t", " ", "f", "o", "r", " ", "m", "e">>],
      [event_type |-> "prompt_sent", timestamp |-> T2,
       prompt_text |-> <<"d", "o", " ", "w", "h", "o", "l", "e", "\n", "t", "h", "i", "n", "g">>],
      [event_type |-> "code_copied", timestamp |-> T1,
       code_snippet |-> SnippetOfLines(51)],
      [event_type |-> "code_pasted", timestamp |-> T2],
      [event_type |-> "prompt_sent", timestamp |-> T3, prompt_text |-> None],
      [event_type |-> "response_received", timestamp |-> Unparsable],
      [event_type |-> "code_modified", timestamp |-> T3] }

FilePool ==
    { [event_type |-> "file_created", timestamp |-> T1,
       metadata |-> [filePath |-> <<"s", "o", "l", "u", "t", "i", "o", "n", ".", "p", "y">>]],
      [event_type |-> "file_modified", timestamp |-> T2,
       metadata |-> SerializedObject([fileName |-> <<"T", "e", "s", "t", ".", "t", "x", "t">>])],
      [event_type |-> "file_renamed", metadata |-> InvalidJson],
      [event_type |-> "file_deleted", timestamp |-> T3,
       metadata |-> [filePath |-> <<"m", "a", "i", "n", ".", "p", "y">>, isDirectory |-> TRUE]] }

TerminalPool ==
    { [event_type |-> "terminal_spawned", timestamp |-> T1,
       metadata |-> [terminalName |-> <<"b", "a", "s", "h">>]],
      [event_type |-> "command_executed", timestamp |-> None,
       metadata |-> [command |-> <<"l", "s">>]] }

SubmissionPool ==
    { [code |-> <<"a", "=", "1">>, score |-> 100],
      [code |-> <<"b", "=", "2">>, score |-> 50],
      [code |-> << >>, score |-> 100] }

CodeSnapshotPool ==
    { [code |-> <<"d", "e", "f", " ", "f", "(", ")", ":", "\n", " ", " ", " ", " ", "#", " ", "a", "d", "d", "\n", " ", " ", " ", " ", "r", "e", "t", "u", "r", "n", " ", "1", "\n">>],
      [code |-> <<"i", "f", " ", "a", ":", "\n", "\t", "\t", "\t", "\t", "\t", "\t", "\t", "\t", "/", "/", " ", "b", "\n", " ", " ", "\n", "c">>],
      [timestamp |-> T1] }

\* a session of at most MaxLog records, in any order
InitSmallSession ==
    \E ni \in 0..MaxLog, nf \in 0..MaxLog, nt \in 0..MaxLog, ns \in 0..MaxLog,
       nc \in 0..MaxLog :
        /\ ni + nf + nt + ns + nc <= MaxLog
        /\ interactions \in [1..ni -> InteractionPool]
        /\ file_operations \in [1..nf -> FilePool]
        /\ terminal_events \in [1..nt -> TerminalPool]
        /\ submissions \in [1..ns -> SubmissionPool]
        /\ code_snapshots \in [1..nc -> CodeSnapshotPool]

\* numbers of prompts, copies and modifications around the thresholds of
\* the detectors, and snippet sizes around those of the copy rule
LongPromptCounts == {0, 10, 11, 20, 21, 25}
LongCopyCounts == {0, 1, 5, 6}
LongModificationCounts == {0, 2, 3}
LongPromptTexts == {<<"h", "e", "l", "p">>, << >>}
LongSnippetLines == {50, 51, 100, 101, 120}

\* a long session: p prompts, then c copies, then m modifications
InitLongSession ==
    /\ \E p \in LongPromptCounts, text \in LongPromptTexts,
          c \in LongCopyCounts, lines \in LongSnippetLines,
          m \in LongModificationCounts :
           interactions =
               Repeat([event_type |-> "prompt_sent", timestamp |-> T1,
                       prompt_text |-> text], p)
               \o Repeat([event_type |-> "code_copied_from_ai", timestamp |-> T2,
                          code_snippet |-> SnippetOfLines(lines)], c)
               \o Repeat([event_type |-> "code_modified", timestamp |-> T3], m)
    /\ file_operations = << >>
    /\ terminal_events = << >>
    /\ submissions = << >>
    /\ code_snapshots = << >>

\* no tool is called yet and the Event Store answers every request
ServerIdle ==
    /\ outage = NoOutage
    /\ now = 0
    /\ request = [tool |-> "none"]
    /\ response = [tool |-> "none"]
    /\ reads = << >>

Init ==
    /\ InitSmallSession \/ InitLongSession
    /\ ServerIdle
    /\ ScoreIdle
    /\ AggregateIdle
    /\ ConcurrentIdle

\* the events a caller passes to flag_sanity_checks
SuppliedEvents ==
    { <<[event_type |-> "prompt_sent", timestamp |-> T2,
         prompt_text |-> <<"s", "o", "l", "v", "e", " ", "e", "n", "t", "i", "r", "e", " ", "p", "r", "o", "b", "l", "e", "m">>]>>,
      <<[event_type |-> "code_copied", timestamp |-> T1,
         code_snippet |-> <<"a", "=", "1">>],
        [event_type |-> "response_received", timestamp |-> T2,
         response_text |-> <<"u", "s", "e", " ", "a", "=", "1">>]>>,
      <<[event_type |-> "code_modified", timestamp |-> T1],
        [event_type |-> "code_modified", timestamp |-> T2],
        [event_type |-> "code_modified", timestamp |-> Undated]>>,
      <<[event_type |-> "code_modified", timestamp |-> T1],
        [event_type |-> "code_modified", timestamp |-> Unparsable],
        [event_type |-> "code_modified", timestamp |-> T2]>> }

S1 == <<"s", "1">>

S2 == <<"s", "2">>

WatchArguments ==
    { [sessionId |-> S1],
      [sessionId |-> S1, includeFileOperations |-> FALSE],
      [sessionId |-> S1, includeTerminalEvents |-> FALSE],
      [sessionId |-> S1, includeFileOperations |-> FALSE,
       includeTerminalEvents |-> FALSE],
      EmptyDict }

FlagArguments ==
    { [sessionId |-> S1], [sessionId |-> << >>] }
        \cup { [sessionId |-> S1, events |-> evs] : evs \in SuppliedEvents }

ExecuteArguments ==
    { [sessionId |-> S1],
      [sessionId |-> S1, code |-> <<"a", "=", "1">>],
      [code |-> <<"a", "=", "1">>] }

\* mutant: the arguments are not validated
HasSessionIdUnchecked(arguments) == TRUE

\* `if not session_id` of the handlers, negated
HasSessionId(arguments) == Truthy(Get(arguments, "sessionId", None))

\* the except clause of handle_call_tool, for the ValueError of a handler
call_tool_error(name, arguments) ==
    [tool |-> name, args |-> arguments, error |-> <<"s", "e", "s", "s", "i", "o", "n", "I", "d", " ", "i", "s", " ", "r", "e", "q", "u", "i", "r", "e", "d">>]

Tick ==
    /\ now < MaxClock
    /\ now' = now + 1
    /\ UNCHANGED <<storeVars, outage, request, response, reads>>
    /\ UNCHANGED <<scoreVars, aggregate, concurrentVars>>

\* a client calls a tool; its response is pending
CallTool ==
    /\ request.tool = "none"
    /\ \/ \E arguments \in WatchArguments :
              request' = [tool |-> "watch_session", arguments |-> arguments]
       \/ \E arguments \in ExecuteArguments :
              request' = [tool |-> "execute_analysis", arguments |-> arguments]
       \/ \E arguments \in FlagArguments :
              request' = [tool |-> "flag_sanity_checks", arguments |-> arguments]
    /\ response' = [tool |-> "none"]
    /\ reads' = << >>
    /\ UNCHANGED <<storeVars, outage, now>>
    /\ UNCHANGED <<scoreVars, aggregate, concurrentVars>>

HandleWatchSession ==
    /\ request.tool = "watch_session"
    /\ IF HasSessionId(request.arguments)
       THEN /\ response' = watch_session(request.arguments)
            /\ reads' = WatchReads(request.arguments)
       ELSE /\ response' = call_tool_error("watch_session", request.arguments)
            /\ reads' = << >>
    /\ request' = [tool |-> "none"]
    /\ UNCHANGED <<storeVars, outage, now>>
    /\ UNCHANGED <<scoreVars, aggregate, concurrentVars>>

HandleExecuteAnalysis ==
    /\ request.tool = "execute_analysis"
    /\ IF HasSessionId(request.arguments)
       THEN /\ response' = execute_analysis(request.arguments)
            /\ reads' = ExecuteReads(request.arguments)
       ELSE /\ response' = call_tool_error("execute_analysis", request.arguments)
            /\ reads' = << >>
    /\ request' = [tool |-> "none"]
    /\ UNCHANGED <<storeVars, outage, now>>
    /\ UNCHANGED <<scoreVars, aggregate, concurrentVars>>

HandleFlagSanityChecks ==
    /\ request.tool = "flag_sanity_checks"
    /\ IF HasSessionId(request.arguments)
       THEN /\ response' = flag_sanity_checks(request.arguments)
            /\ reads' = FlagReads(request.arguments)
       ELSE /\ response' = call_tool_error("flag_sanity_checks", request.arguments)
            /\ reads' = << >>
    /\ request' = [tool |-> "none"]
    /\ UNCHANGED <<storeVars, outage, now>>
    /\ UNCHANGED <<scoreVars, aggregate, concurrentVars>>

Next ==
    \/ Tick
    \/ CallTool
    \/ HandleWatchSession
    \/ HandleExecuteAnalysis
    \/ HandleFlagSanityChecks

Spec == Init /\ [][Next]_vars

---------------------------------------------------------------------------
(* Event Store outages: the tool calls while one endpoint fails *)

Outages ==
    { NoOutage }
        \cup { [endpoint |-> e, kind |-> k] : e \in Endpoints, k \in FailureKinds }

\* sessions with records behind every endpoint
OutageSessions ==
    { [interactions |->
           <<[event_type |-> "prompt_sent", timestamp |-> T2,
              prompt_text |-> <<"s", "o", "l", "v", "e", " ", "e", "n", "t", "i", "r", "e", " ", "p", "r", "o", "b", "l", "e", "m">>],
             [event_type |-> "code_copied", timestamp |-> T1,
              code_snippet |-> SnippetOfLines(51)]>>,
       file_operations |->
           <<[event_type |-> "file_created", timestamp |-> T1,
              metadata |-> [filePath |-> <<"s", "o", "l", "u", "t", "i", "o", "n", ".", "p", "y">>]]>>,
       terminal_events |->
           <<[event_type |-> "terminal_spawned", timestamp |-> T1,
              metadata |-> [terminalName |-> <<"b", "a", "s", "h">>]]>>,
       submissions |->
           <<[code |-> <<"a", "=", "1">>, score |-> 100], [code |-> <<"a", "=", "1">>, score |-> 100]>>,
       code_snapshots |-> <<[code |-> <<"a", "=", "1", "\n", "#", " ", "b">>]>>],
      [interactions |->
           <<[event_type |-> "code_modified", timestamp |-> T3]>>,
       file_operations |->
           <<[event_type |-> "file_renamed", metadata |-> NoneMetadata]>>,
       terminal_events |->
           <<[event_type |-> "command_executed", timestamp |-> None,
              metadata |-> [command |-> <<"l", "s">>]]>>,
       submissions |-> <<[code |-> <<"b", "=", "2">>, score |-> 50]>>,
       code_snapshots |-> <<[code |-> <<"a", "=", "1">>], [code |-> <<" ", " ", "b", "=", "2">>]>>] }

InitOutage ==
    /\ \E session \in OutageSessions :
           /\ interactions = session.interactions
           /\ file_operations = session.file_operations
           /\ terminal_events = session.terminal_events
           /\ submissions = session.submissions
           /\ code_snapshots = session.code_snapshots
    /\ outage \in Outages
    /\ now = 0
    /\ request = [tool |-> "none"]
    /\ response = [tool |-> "none"]
    /\ reads = << >>
    /\ ScoreIdle
    /\ AggregateIdle
    /\ ConcurrentIdle

SpecOutage == InitOutage /\ [][Next]_vars

---------------------------------------------------------------------------
(* Concurrent tool calls: two calls for two sessions, each blocking read of
   the Event Store and each run of the detectors being one step *)

ConcurrentSessions == {S1, S2}

ConcurrentCalls == {1, 2}

ConcurrentTools == {"watch_session", "execute_analysis", "flag_sanity_checks"}

NothingFetched ==
    [interactions |-> << >>, file_operations |-> << >>,
     terminal_events |-> << >>, submissions |-> << >>, code_snapshots |-> << >>]

\* the field of a session's records behind an endpoint
FieldOf(endpoint) ==
    CASE endpoint = "interactions" -> "interactions"
      [] endpoint = "file-operations" -> "file_operations"
      [] endpoint = "terminal-events" -> "terminal_events"
      [] endpoint = "submissions" -> "submissions"
      [] endpoint = "code-snapshots" -> "code_snapshots"

\* the endpoints a tool reads, in order
ReadsOf(tool, arguments) ==
    CASE tool = "watch_session" -> WatchReads(arguments)
      [] tool = "execute_analysis" -> ExecuteReads(arguments)
      [] tool = "flag_sanity_checks" -> FlagReads(arguments)

\* mutant: one client is shared, and it keeps the session of the call that
\* arrived last
FetchSharedSession(session_id, endpoint) ==
    make_request(endpoint, stores[calls[2].session_id][FieldOf(endpoint)])

\* DatabaseAPIClient().get_...(session_id): each call makes its own client,
\* which requests the records of the session it is given
FetchSession(session_id, endpoint) ==
    make_request(endpoint, stores[session_id][FieldOf(endpoint)])

\* the entry point of a tool on fetched records, called at time `clock`
RunToolAt(tool, arguments, fetched, clock) ==
    CASE tool = "watch_session" ->
             watch_session_on(arguments, fetched.interactions,
                              fetched.file_operations, fetched.terminal_events)
      [] tool = "execute_analysis" ->
             execute_analysis_on(arguments,
                                 CodeToAnalyse(arguments, fetched.code_snapshots),
                                 fetched.interactions)
      [] tool = "flag_sanity_checks" ->
             flag_sanity_checks_on(
                 arguments,
                 EventsOf(arguments, fetched.interactions,
                          fetched.file_operations, fetched.terminal_events),
                 fetched.submissions, clock)

InitConcurrent ==
    /\ stores \in [ConcurrentSessions -> OutageSessions]
    /\ \E tools \in [ConcurrentCalls -> ConcurrentTools] :
           calls = [c \in ConcurrentCalls |->
                       LET session_id == IF c = 1 THEN S1 ELSE S2
                       IN  [tool |-> tools[c],
                            session_id |-> session_id,
                            arguments |-> [sessionId |-> session_id],
                            to_read |-> ReadsOf(tools[c], [sessionId |-> session_id]),
                            fetched |-> NothingFetched,
                            result |-> [tool |-> "none"]]]
    /\ StoreIdle
    /\ ScoreIdle
    /\ AggregateIdle

\* a call reads the next endpoint of its session
FetchRecords(c) ==
    /\ calls[c].to_read # << >>
    /\ LET endpoint == Head(calls[c].to_read)
       IN  calls' = [calls EXCEPT
                        ![c].to_read = Tail(@),
                        ![c].fetched[FieldOf(endpoint)] =
                            FetchSession(calls[c].session_id, endpoint)]
    /\ UNCHANGED <<stores, serverVars, scoreVars, aggregate>>

\* a call runs its detectors on what it fetched and returns
RunDetectors(c) ==
    /\ calls[c].to_read = << >>
    /\ calls[c].result.tool = "none"
    /\ calls' = [calls EXCEPT
                    ![c].result =
                        RunToolAt(calls[c].tool, calls[c].arguments,
                                  calls[c].fetched, now)]
    /\ UNCHANGED <<stores, serverVars, scoreVars, aggregate>>

NextConcurrent ==
    \E c \in ConcurrentCalls :
        \/ FetchRecords(c)
        \/ RunDetectors(c)

SpecConcurrent == InitConcurrent /\ [][NextConcurrent]_vars

---------------------------------------------------------------------------
(* The aggregators applied to free inputs: _generate_sanity_checks and
   _generate_alerts *)

AggregateViolationCounts == {0, 1, 5, 6}

AggregateRiskScores == {0, 70, 71, 100}

RedFlag(type, severity) ==
    [type |-> type, description |-> << >>, severity |-> severity]

AggregateRedFlags ==
    { << >>,
      <<RedFlag("rapid_completion", "medium")>>,
      <<RedFlag("perfect_solution_no_modifications", "high")>>,
      <<RedFlag("perfect_solution_no_modifications", "high"),
        RedFlag("no_modifications_only_copies", "high")>>,
      <<RedFlag("rapid_completion", "medium"),
        RedFlag("no_modifications_only_copies", "high")>> }

AggregateAnomalies ==
    { << >>,
      <<[type |-> "rapid_fire_events", description |-> << >>, severity |-> "medium"]>>,
      <<[type |-> "long_inactivity", description |-> << >>, severity |-> "low"]>> }

Aggregate(vs, red_flags, anomalies, risk_score) ==
    [violations |-> vs,
     red_flags |-> red_flags,
     anomalies |-> anomalies,
     risk_score |-> risk_score,
     checks |-> generate_sanity_checks(vs, red_flags, anomalies),
     alerts |-> generate_alerts(vs, risk_score)]

InitAggregate ==
    /\ aggregate = Aggregate(<< >>, << >>, << >>, 0)
    /\ StoreIdle
    /\ ScoreIdle
    /\ ConcurrentIdle

SetViolations ==
    /\ \E n \in AggregateViolationCounts, sev \in Severities, last \in Severities :
           aggregate' = Aggregate([i \in 1..n |->
                                      Violation(IF i = n THEN last ELSE sev)],
                                  aggregate.red_flags, aggregate.anomalies,
                                  aggregate.risk_score)
    /\ UNCHANGED <<serverVars, scoreVars, concurrentVars>>

SetRedFlags ==
    /\ \E red_flags \in AggregateRedFlags :
           aggregate' = Aggregate(aggregate.violations, red_flags,
                                  aggregate.anomalies, aggregate.risk_score)
    /\ UNCHANGED <<serverVars, scoreVars, concurrentVars>>

SetAnomalies ==
    /\ \E anomalies \in AggregateAnomalies :
           aggregate' = Aggregate(aggregate.violations, aggregate.red_flags,
                                  anomalies, aggregate.risk_score)
    /\ UNCHANGED <<serverVars, scoreVars, concurrentVars>>

SetRiskScore ==
    /\ \E risk_score \in AggregateRiskScores :
           aggregate' = Aggregate(aggregate.violations, aggregate.red_flags,
                                  aggregate.anomalies, risk_score)
    /\ UNCHANGED <<serverVars, scoreVars, concurrentVars>>

NextAggregate ==
    \/ SetViolations
    \/ SetRedFlags
    \/ SetAnomalies
    \/ SetRiskScore

SpecAggregate == InitAggregate /\ [][NextAggregate]_vars

---------------------------------------------------------------------------
(* Detector sessions: the tool calls on sessions laid out around the
   thresholds of the detectors *)

Session(inter, file_ops, term_events, subs) ==
    [interactions |-> inter, file_operations |-> file_ops,
     terminal_events |-> term_events, submissions |-> subs,
     code_snapshots |-> << >>]

\* m code_modified events, the first at 00:00:05 and the others at `last`
Modifications(m, last) ==
    [i \in 1..m |-> [event_type |-> "code_modified",
                     timestamp |-> IF i = 1 THEN IsoFormat(5) ELSE last]]

CopyOf(snippet, timestamp) ==
    [event_type |-> "code_copied", timestamp |-> timestamp,
     code_snippet |-> snippet]

ResponseOf(text) ==
    [event_type |-> "response_received", timestamp |-> IsoFormat(9),
     response_text |-> text]

PromptOf(text) ==
    [event_type |-> "prompt_sent", timestamp |-> IsoFormat(5),
     prompt_text |-> text]

PasteAt(timestamp) == [event_type |-> "code_pasted", timestamp |-> timestamp]

\* the seconds at which the last modification is made: spans of 0, 4, 5,
\* 235, 299, 300, 3600 and 7200 seconds after the first one
SpanEnds == {5, 9, 10, 240, 304, 305, 3605, 7205}

\* sessions around the thresholds of the anomaly and red-flag detectors
TimedSessions ==
    { Session(Modifications(m, IsoFormat(last)) \o copies, << >>, << >>, subs) :
        m \in {0, 1, 2, 3, 10, 11}, last \in SpanEnds,
        copies \in {<< >>, <<CopyOf(<<"a", "=", "1">>, IsoFormat(5))>>},
        subs \in {<< >>, <<[code |-> <<"a", "=", "1">>, score |-> 100]>>} }

\* sessions around the thresholds of flag-mode violation detection
ViolationSessions ==
    { Session(Repeat(PromptOf(<<"s", "o", "l", "v", "e", " ", "e", "n", "t", "i", "r", "e", " ", "p", "r", "o", "b", "l", "e", "m">>), s)
                  \o Repeat(PromptOf(<<"h", "e", "l", "p">>), h)
                  \o Repeat(CopyOf(<<"a", "=", "1">>, IsoFormat(9)), c)
                  \o Modifications(m, IsoFormat(9)),
              << >>, << >>, << >>) :
        s \in {0, 1, 3, 6}, h \in {0, 11}, c \in {0, 5, 6}, m \in {0, 3} }

\* sessions for the plagiarism analysis: copied snippets, response texts
\* and submitted codes that match or not
PlagiarismSessions ==
    { Session(copies \o responses \o Modifications(m, IsoFormat(9)),
              << >>, << >>, subs) :
        copies \in { << >>,
                     <<CopyOf(<<"a", "=", "1">>, IsoFormat(5))>>,
                     <<CopyOf(<<"a", "=", "1">>, IsoFormat(5)), CopyOf(<<"a", "=", "1">>, IsoFormat(9))>>,
                     <<CopyOf(<<"a", "=", "1">>, IsoFormat(5)), CopyOf(<<"c", "=", "3">>, IsoFormat(9))>>,
                     <<CopyOf(<< >>, IsoFormat(5))>>,
                     <<CopyOf(None, IsoFormat(5))>> },
        responses \in { << >>,
                        <<ResponseOf(<<"u", "s", "e", " ", "a", "=", "1">>)>>,
                        <<ResponseOf(<<"b", "=", "2">>), ResponseOf(<<"a", "=", "1">>)>>,
                        <<ResponseOf(<<"b", "=", "2">>)>>,
                        <<ResponseOf(None)>> },
        m \in {0, 1},
        subs \in { << >>,
                   <<[code |-> <<"a", "=", "1">>, score |-> 100]>>,
                   <<[code |-> <<"a", "=", "1">>, score |-> 50], [code |-> <<"a", "=", "1">>, score |-> 99]>>,
                   <<[code |-> <<"a", "=", "1">>, score |-> 50], [code |-> <<"b", "=", "2">>, score |-> 100]>>,
                   <<[code |-> <<"a", "=", "1">>, score |-> 50], [code |-> <<"b", "=", "2">>, score |-> 50],
                     [code |-> <<"a", "=", "1">>, score |-> 50], [code |-> <<"b", "=", "2">>, score |-> 50]>> } }

\* pastes before, at, shortly after and 29, 30 and 31 seconds after a copy
\* made at 00:00:10
PasteLists ==
    { << >>,
      <<PasteAt(IsoFormat(14))>>,
      <<PasteAt(IsoFormat(39))>>,
      <<PasteAt(IsoFormat(40))>>,
      <<PasteAt(IsoFormat(41))>>,
      <<PasteAt(IsoFormat(10))>>,
      <<PasteAt(IsoFormat(5))>>,
      <<PasteAt(IsoFormat(5)), PasteAt(IsoFormat(20)), PasteAt(IsoFormat(14))>>,
      <<PasteAt(None)>>,
      <<[event_type |-> "code_pasted_from_ai"], PasteAt(Undated),
        [event_type |-> "code_pasted_from_ai", timestamp |-> IsoFormat(11)]>> }

\* sessions for execute_analysis: p prompts and m modifications around a
\* copy and its pastes
ExecutorSessions ==
    { Session(Repeat(PromptOf(<<"h", "e", "l", "p">>), p) \o copies \o pastes
                  \o Modifications(m, IsoFormat(9)),
              << >>, << >>, << >>) :
        p \in 0..3, m \in 0..4, pastes \in PasteLists,
        copies \in { <<CopyOf(<<"a", "=", "1">>, IsoFormat(10))>> } }
        \cup
    { Session(<<CopyOf(<<"a", "=", "1">>, IsoFormat(10)), PasteAt(IsoFormat(14)),
                [event_type |-> "code_copied_from_ai", timestamp |-> IsoFormat(12)],
                [event_type |-> "code_copied_from_ai", timestamp |-> IsoFormat(14)]>>,
              << >>, << >>, << >>) }

\* the forms in which metadata arrives: a dict, a str holding a JSON
\* object, a str that is not JSON, a str holding JSON that is no object,
\* null
MetadataForms ==
    { [filePath |-> <<"n", "o", "t", "e", "s", ".", "p", "y">>],
      SerializedObject([fileName |-> <<"T", "e", "s", "t", ".", "t", "x", "t">>]),
      InvalidJson,
      SerializedNonObject,
      NoneMetadata }

\* sessions whose file operations and terminal events carry each form
MetadataSessions ==
    { Session(<< >>,
              [i \in 1..nf |-> [event_type |-> "file_modified",
                                timestamp |-> IsoFormat(5), metadata |-> fm]],
              [i \in 1..nt |-> [event_type |-> "command_executed",
                                timestamp |-> IsoFormat(9), metadata |-> tm]],
              << >>) :
        nf \in {0, 1}, nt \in {0, 1}, fm \in MetadataForms, tm \in MetadataForms }

DetectorSessions ==
    TimedSessions \cup ViolationSessions \cup PlagiarismSessions
        \cup ExecutorSessions \cup MetadataSessions

InitDetect ==
    /\ \E session \in DetectorSessions :
           /\ interactions = session.interactions
           /\ file_operations = session.file_operations
           /\ terminal_events = session.terminal_events
           /\ submissions = session.submissions
           /\ code_snapshots = session.code_snapshots
    /\ ServerIdle
    /\ ScoreIdle
    /\ AggregateIdle
    /\ ConcurrentIdle

SpecDetect == InitDetect /\ [][Next]_vars

---------------------------------------------------------------------------

(* Claims about the tool calls *)

\* the entry point ran (the arguments name a session)
Started == "success" \in DOMAIN response

WatchDone ==
    response.tool = "watch_session" /\ Started /\ response.success

FlagDone ==
    response.tool = "flag_sanity_checks" /\ Started /\ response.success

TypesOf(vs) == { vs[i].type : i \in DOMAIN vs }

\* the entries of the three fetched lists, concatenated in the order
\* interactions, file operations, terminal events
ConcatenatedEntries(arguments) ==
    MapSeq(interactions, InteractionEntry)
        \o MapSeq(WatchedFileOperations(arguments), FileEntry)
        \o MapSeq(WatchedTerminalEvents(arguments), TerminalEntry)

EntriesAt(entries, t) ==
    LET AtT(entry) == entry.timestamp = t
    IN  SelectSeq(entries, AtT)

\* C5: the timeline has one entry per fetched event, is ascending by
\* timestamp string, and entries of equal timestamp keep the order of the
\* concatenation interactions ++ file operations ++ terminal events.
C5_TimelineStableSort ==
    WatchDone =>
        LET timeline == response.timeline
            entries == ConcatenatedEntries(response.args)
        IN  /\ Len(timeline) = Len(entries)
            /\ \A i \in 1..(Len(timeline) - 1) :
                   ~StrLess(timeline[i + 1].timestamp, timeline[i].timestamp)
            /\ \A i \in DOMAIN entries :
                   EntriesAt(timeline, entries[i].timestamp)
                       = EntriesAt(entries, entries[i].timestamp)

\* a file operation logged before an interaction is moved in front of it,
\* or two entries of one timestamp are kept in their order
C5_Witness ==
    /\ WatchDone
    /\ Len(response.timeline) = 2
    /\ response.timeline # ConcatenatedEntries(response.args)
    /\ response.timeline[1].type = "file_created"
    /\ response.timeline[2].type = "prompt_sent"

AllPassed(checks) == \A i \in DOMAIN checks : checks[i].status = "passed"

NothingStored ==
    /\ interactions = << >>
    /\ file_operations = << >>
    /\ terminal_events = << >>
    /\ submissions = << >>

\* C6: flag_sanity_checks on a session without events and submissions
\* succeeds with riskScore 0, no violations, no red flags and its three
\* sanity checks passed.
C6_EmptySession ==
    (response.tool = "flag_sanity_checks" /\ Started /\ NothingStored
        /\ "events" \notin DOMAIN response.args)
    => /\ response.success
       /\ response.riskScore = 0
       /\ response.violations = << >>
       /\ response.redFlags = << >>
       /\ Len(response.sanityChecks) = 3
       /\ AllPassed(response.sanityChecks)

C6_Witness ==
    /\ FlagDone
    /\ NothingStored
    /\ "events" \notin DOMAIN response.args
    /\ response.riskScore = 0

IsLargeCopyViolation(v) == v.type = "large_code_copy"

\* the number of lines of the snippet of a copy event
LinesCopied(e) == CountLines(e.code_snippet)

CopiesOver50(e) == IsCopy(e) /\ LinesCopied(e) > 50

\* C7: in watch-mode each copy event of more than 50 lines yields one
\* large_code_copy violation, high above 100 lines and medium otherwise,
\* and no other copy event yields one; one 120-line copy alone yields one
\* high violation and riskScore 30.
C7_LargeCodeCopy ==
    WatchDone =>
        LET reported == SelectSeq(response.violations, IsLargeCopyViolation)
            large == SelectSeq(interactions, CopiesOver50)
        IN  /\ Len(reported) = Len(large)
            /\ \A k \in DOMAIN reported :
                   /\ reported[k].severity =
                          IF LinesCopied(large[k]) > 100 THEN "high" ELSE "medium"
                   /\ reported[k].timestamp = large[k].timestamp
            /\ (Len(interactions) = 1 /\ IsCopy(interactions[1])
                    /\ LinesCopied(interactions[1]) = 120)
               => /\ Len(response.violations) = 1
                  /\ response.violations[1].severity = "high"
                  /\ response.riskScore = 30

C7_Witness ==
    /\ WatchDone
    /\ Len(interactions) = 1
    /\ IsCopy(interactions[1])
    /\ LinesCopied(interactions[1]) = 120
    /\ TypesOf(response.violations) = {"large_code_copy"}
    /\ response.riskScore = 30

WatchTypes == {"large_code_copy", "solution_request", "suspicious_file_operation"}

FlagTypes == {"solution_request_pattern", "excessive_copying", "suspicious_timing"}

\* what watch-mode detection reports on the whole session
WatchModeViolations ==
    watcher_detect_violations(interactions, file_operations, terminal_events)

FlagOnStore == FlagDone /\ "events" \notin DOMAIN response.args

SharedPatterns ==
    << <<<<"s", "o", "l", "v", "e">>, <<"e", "n", "t", "i", "r", "e">>, <<"p", "r", "o", "b", "l", "e", "m">>>>,
       <<<<"d", "o">>, <<"w", "h", "o", "l", "e">>, <<"t", "h", "i", "n", "g">>>> >>

MatchesSharedPattern(e) ==
    /\ IsPrompt(e)
    /\ "prompt_text" \in DOMAIN e
    /\ e.prompt_text # None
    /\ AnyPatternMatches(SharedPatterns, Lower(e.prompt_text))

IsSuspiciousTimingViolation(v) == v.type = "suspicious_timing"

\* the events the last flag_sanity_checks call analysed
Analysed == EventsToAnalyse(response.args)

\* C9: in flag-mode more than 10 prompt_sent events with fewer than 3
\* code_modified events yield exactly one suspicious_timing violation, of
\* severity medium, and more than 20 prompt_sent events add 15 to the risk
\* score before the cap.
C9_PromptHeuristics ==
    FlagDone =>
        LET prompts == CountEvents(Analysed, {"prompt_sent"})
            mods == CountEvents(Analysed, {"code_modified"})
            timing == SelectSeq(response.violations, IsSuspiciousTimingViolation)
        IN  /\ (prompts > 10 /\ mods < 3) =>
                   /\ Len(timing) = 1
                   /\ timing[1].severity = "medium"
            /\ prompts > 20 =>
                   response.riskScore =
                       Min(100, ClaimS(response.violations) + ClaimH(Analysed))

HasEqualCodes(subs) ==
    \E i \in DOMAIN subs, j \in DOMAIN subs :
        /\ i < j
        /\ "code" \in DOMAIN subs[i] /\ "code" \in DOMAIN subs[j]
        /\ subs[i].code = subs[j].code

HasEqualNonEmptyCodes(subs) ==
    \E i \in DOMAIN subs, j \in DOMAIN subs :
        /\ i < j
        /\ "code" \in DOMAIN subs[i] /\ "code" \in DOMAIN subs[j]
        /\ subs[i].code = subs[j].code
        /\ subs[i].code # << >>
        /\ subs[i].code # None

ReportsIdenticalSubmissions ==
    /\ response.plagiarismAnalysis.suspicious
    /\ \E i \in DOMAIN response.plagiarismAnalysis.patterns :
           response.plagiarismAnalysis.patterns[i] = "identical_submissions"
    /\ response.plagiarismAnalysis.confidence = 80

\* C10 as stated: two or more submissions with identical code text make the
\* plagiarism analysis suspicious, with identical_submissions in patterns
\* and confidence 80, whatever the events.
C10_IdenticalSubmissions ==
    (FlagDone /\ HasEqualCodes(submissions)) => ReportsIdenticalSubmissions

\* C10 as amended: two or more submissions with identical non-empty code
\* text make the plagiarism analysis suspicious, with identical_submissions
\* in patterns and confidence 80, whatever the events.
C10_IdenticalNonEmptySubmissions ==
    (FlagDone /\ HasEqualNonEmptyCodes(submissions))
        => ReportsIdenticalSubmissions

\* identical submissions together with a copy that matches an AI response
C10_Witness ==
    /\ FlagDone
    /\ HasEqualNonEmptyCodes(submissions)
    /\ response.plagiarismAnalysis.patterns
           = <<"identical_submissions", "code_matches_ai_response">>
    /\ response.plagiarismAnalysis.confidence = 80

---------------------------------------------------------------------------
(* Claims about errors, outages and concurrent calls *)

\* C11: on any event and submission lists, records without a usable
\* timestamp included, every flag-mode detector returns without raising, so
\* flag_sanity_checks returns success = true.
C11_DetectorsTotal ==
    (response.tool = "flag_sanity_checks" /\ Started) => response.success

\* the timestamp of the event is one dateutil parses
Parses(e) ==
    /\ "timestamp" \in DOMAIN e
    /\ e.timestamp # None
    /\ IsClockString(e.timestamp)

\* the gaps of the consecutive pairs whose two timestamps parse and differ
\* by a positive time; a pair with an unparsable timestamp gives none
ParsedGaps(sorted) ==
    LET Usable(i) ==
            /\ Parses(sorted[i]) /\ Parses(sorted[i + 1])
            /\ ParseSeconds(sorted[i + 1].timestamp) > ParseSeconds(sorted[i].timestamp)
        pairs == [i \in 1..(Len(sorted) - 1) |-> i]
    IN  [k \in DOMAIN SelectSeq(pairs, Usable) |->
            LET i == SelectSeq(pairs, Usable)[k]
            IN  ParseSeconds(sorted[i + 1].timestamp)
                    - ParseSeconds(sorted[i].timestamp)]

\* the anomaly types the mean of these gaps calls for
AnomaliesOfGaps(gaps) ==
    IF gaps = << >> THEN << >>
    ELSE IF SumSeq(gaps) < 5 * Len(gaps) THEN <<"rapid_fire_events">>
    ELSE IF SumSeq(gaps) > 3600 * Len(gaps) THEN <<"long_inactivity">>
    ELSE << >>

\* the events watch_session put on its timeline
WatchedEvents ==
    interactions \o WatchedFileOperations(response.args)
        \o WatchedTerminalEvents(response.args)

\* C12: an event whose timestamp does not parse gives no gap to the mean gap
\* of the anomaly detector while the gaps of the other consecutive pairs are
\* used, and watch_session still lists the event on its timeline with the
\* timestamp turned into a string.
C12_UnparsableTimestamps ==
    /\ (FlagDone /\ Len(Analysed) >= 2) =>
           [i \in DOMAIN response.anomalies |-> response.anomalies[i].type]
               = AnomaliesOfGaps(ParsedGaps(SortedEvents(Analysed)))
    /\ WatchDone =>
           \A i \in DOMAIN WatchedEvents :
               ~Parses(WatchedEvents[i]) =>
                   \E j \in DOMAIN response.timeline :
                       /\ response.timeline[j].type = EventType(WatchedEvents[i])
                       /\ response.timeline[j].timestamp
                              = Str(Get(WatchedEvents[i], "timestamp", << >>))

\* three events, the last sorted one unparsable: the gap of the first two
\* alone makes the mean
C12_Witness ==
    /\ FlagDone
    /\ Len(Analysed) = 3
    /\ \E i \in DOMAIN Analysed : ~Parses(Analysed[i])
    /\ Len(ParsedGaps(SortedEvents(Analysed))) = 1
    /\ Len(response.anomalies) = 1
    /\ response.anomalies[1].type = "rapid_fire_events"

\* the records of the session in the Event Store
StoredRecords ==
    [interactions |-> interactions,
     file_operations |-> file_operations,
     terminal_events |-> terminal_events,
     submissions |-> submissions,
     code_snapshots |-> code_snapshots]

\* the records of the session with those of the failing endpoint left out
SurvivingRecords ==
    LET Surviving(endpoint, records) ==
            IF outage.endpoint = endpoint THEN << >> ELSE records
    IN  [interactions |-> Surviving("interactions", interactions),
         file_operations |-> Surviving("file-operations", file_operations),
         terminal_events |-> Surviving("terminal-events", terminal_events),
         submissions |-> Surviving("submissions", submissions),
         code_snapshots |-> Surviving("code-snapshots", code_snapshots)]

\* of these records, those the tool reads with these arguments
ReadBy(tool, arguments, records) ==
    [f \in DOMAIN records |->
        IF \E i \in DOMAIN ReadsOf(tool, arguments) :
               FieldOf(ReadsOf(tool, arguments)[i]) = f
        THEN records[f]
        ELSE << >>]

\* C13: when the fetch of one Event Store source fails, in transport or by
\* its status, the entry point gets an empty list for it and returns what it
\* returns when that source is empty and the others are as they are; a call
\* that succeeds without the failure still returns success = true.
C13_OutageAsEmptySource ==
    (response.tool # "none" /\ Started) =>
        /\ \E t \in 0..now :
               response = RunToolAt(response.tool, response.args,
                                    ReadBy(response.tool, response.args,
                                           SurvivingRecords),
                                    t)
        /\ RunToolAt(response.tool, response.args,
                     ReadBy(response.tool, response.args, StoredRecords),
                     now).success
               => response.success

C13_Witness ==
    /\ WatchDone
    /\ outage = [endpoint |-> "interactions", kind |-> "status"]
    /\ interactions # << >>
    /\ reads = <<"interactions", "file-operations", "terminal-events">>
    /\ response.metrics.totalInteractions = 0
    /\ response.metrics.totalFileOperations = 1

EntryPointRaises ==
    CASE response.tool = "watch_session" ->
             WatcherRaises(interactions, WatchedFileOperations(response.args),
                           WatchedTerminalEvents(response.args))
      [] response.tool = "execute_analysis" -> ExecutorRaises(interactions)
      [] response.tool = "flag_sanity_checks" -> TimestampKeysRaise(Analysed)

\* C15: an exception raised inside an entry point is caught there: the call
\* returns success = false with the explanation "Error: <message>", never
\* the error response of the transport.
C15_ExceptionsCaught ==
    (response.tool # "none" /\ HasSessionId(response.args)) =>
        /\ Started
        /\ "error" \notin DOMAIN response
        /\ EntryPointRaises =>
               /\ response.success = FALSE
               /\ Len(response.explanation) > 7
               /\ SubSeq(response.explanation, 1, 7) = <<"E", "r", "r", "o", "r", ":", " ">>

C15_Witness ==
    /\ response.tool = "watch_session"
    /\ Started
    /\ EntryPointRaises
    /\ response.success = FALSE
    /\ response.explanation = <<"E", "r", "r", "o", "r", ":", " ", "T", "y", "p", "e", "E", "r", "r", "o", "r">>

\* C16: two invocations of an entry point with the same arguments on the
\* same records return identical results, the timestamp of every violation
\* included, whatever the time of the call.
C16_PureOfSnapshot ==
    FlagDone =>
        \A t \in 0..MaxClock :
            flag_sanity_checks_at(response.args, t) = response

\* C17: of two concurrent calls for different sessions, in every
\* interleaving of their reads and detector runs, each fetches only records
\* of its own session and returns what it returns when run alone.
C17_SessionsIsolated ==
    \A c \in DOMAIN calls :
        /\ \A f \in DOMAIN calls[c].fetched :
               calls[c].fetched[f] \in {<< >>, stores[calls[c].session_id][f]}
        /\ calls[c].result.tool # "none" =>
               calls[c].result =
                   RunToolAt(calls[c].tool, calls[c].arguments,
                             ReadBy(calls[c].tool, calls[c].arguments,
                                    stores[calls[c].session_id]),
                             now)

\* both calls of one tool returned, on sessions with different records, with
\* different results
C17_Witness ==
    /\ DOMAIN calls = ConcurrentCalls
    /\ stores[S1] # stores[S2]
    /\ calls[1].tool = calls[2].tool
    /\ calls[1].result.tool # "none"
    /\ calls[2].result.tool # "none"
    /\ calls[1].result # calls[2].result

ExecuteDone ==
    response.tool = "execute_analysis" /\ Started /\ response.success

\* C18: execute_analysis without code on a session without code snapshots
\* succeeds with codeQuality = {}; without code and with snapshots the code
\* analysed is the code field of the last snapshot.
C18_CodeFromLastSnapshot ==
    (response.tool = "execute_analysis" /\ Started
        /\ "code" \notin DOMAIN response.args) =>
        /\ response.success = ~ExecutorRaises(interactions)
        /\ (response.success /\ code_snapshots = << >>) =>
               response.codeQuality = EmptyDict
        /\ (response.success /\ code_snapshots # << >>) =>
               LET last == code_snapshots[Len(code_snapshots)]
               IN  IF "code" \in DOMAIN last
                   THEN /\ response.codeQuality = assess_code_quality(last.code)
                        /\ response.codeQuality.totalLines = CountLines(last.code)
                   ELSE response.codeQuality = EmptyDict

C18_Witness ==
    /\ ExecuteDone
    /\ "code" \notin DOMAIN response.args
    /\ Len(code_snapshots) = 2
    /\ code_snapshots[1] # code_snapshots[2]
    /\ "code" \in DOMAIN code_snapshots[1]
    /\ "code" \in DOMAIN code_snapshots[2]
    /\ response.codeQuality.totalLines = CountLines(code_snapshots[2].code)

---------------------------------------------------------------------------
(* Claims about the aggregators *)

\* C19: the sanity checks are always violation_count, red_flags and
\* anomalies in this order; violation_count is failed iff there are more
\* than 5 violations, else passed; red_flags is failed iff a red flag has
\* severity high, warning iff there are red flags and none is high, else
\* passed; anomalies is warning iff there is an anomaly, else passed.
C19_SanityChecks ==
    LET checks == aggregate.checks
        some_high == \E i \in DOMAIN aggregate.red_flags :
                         aggregate.red_flags[i].severity = "high"
    IN  "alerts" \in DOMAIN aggregate =>
            /\ Len(checks) = 3
            /\ checks[1].check = "violation_count"
            /\ checks[2].check = "red_flags"
            /\ checks[3].check = "anomalies"
            /\ checks[1].status =
                   IF Len(aggregate.violations) > 5 THEN "failed" ELSE "passed"
            /\ checks[2].status =
                   IF some_high THEN "failed"
                   ELSE IF aggregate.red_flags # << >> THEN "warning"
                   ELSE "passed"
            /\ checks[3].status =
                   IF aggregate.anomalies # << >> THEN "warning" ELSE "passed"

C19_Witness ==
    /\ "alerts" \in DOMAIN aggregate
    /\ Len(aggregate.violations) = 5
    /\ aggregate.checks[1].status = "passed"
    /\ aggregate.checks[2].status = "warning"
    /\ aggregate.checks[3].status = "warning"

\* C20: the alerts are a critical risk alert iff the risk score is above 70
\* and a high violation alert iff a violation has severity high, and no
\* other alert: at most two alerts, the critical one first.
C20_Alerts ==
    LET alerts == aggregate.alerts
        some_high == \E i \in DOMAIN aggregate.violations :
                         aggregate.violations[i].severity = "high"
        critical == { i \in DOMAIN alerts :
                        alerts[i].severity = "critical" /\ alerts[i].type = "risk_alert" }
        high == { i \in DOMAIN alerts :
                    alerts[i].severity = "high" /\ alerts[i].type = "violation_alert" }
    IN  "alerts" \in DOMAIN aggregate =>
            /\ critical \cup high = DOMAIN alerts
            /\ Cardinality(critical) = (IF aggregate.risk_score > 70 THEN 1 ELSE 0)
            /\ Cardinality(high) = (IF some_high THEN 1 ELSE 0)
            /\ Len(alerts) <= 2
            /\ critical # {} => critical = {1}

C20_Witness ==
    /\ "alerts" \in DOMAIN aggregate
    /\ aggregate.risk_score = 70
    /\ Len(aggregate.violations) = 6
    /\ Len(aggregate.alerts) = 1
    /\ aggregate.alerts[1].severity = "high"

---------------------------------------------------------------------------
(* Claims about the detectors *)

\* the gaps in seconds of the consecutive pairs of sorted events whose two
\* timestamps parse, a gap of zero seconds included
ComputableGaps(sorted) ==
    LET Computable(i) == Parses(sorted[i]) /\ Parses(sorted[i + 1])
        pairs == SelectSeq([i \in 1..(Len(sorted) - 1) |-> i], Computable)
    IN  [k \in DOMAIN pairs |->
            ParseSeconds(sorted[pairs[k] + 1].timestamp)
                - ParseSeconds(sorted[pairs[k]].timestamp)]

\* the anomaly the mean of the gaps calls for
ExpectedAnomalies(gaps) ==
    IF gaps = << >> THEN << >>
    ELSE IF SumSeq(gaps) < 5 * Len(gaps)
    THEN <<[type |-> "rapid_fire_events", severity |-> "medium"]>>
    ELSE IF SumSeq(gaps) > 3600 * Len(gaps)
    THEN <<[type |-> "long_inactivity", severity |-> "low"]>>
    ELSE << >>

\* C21: on two or more events the anomaly detector takes the gaps between
\* the events consecutive in timestamp order, discards only the pairs with a
\* missing or unparsable timestamp, and reports rapid_fire_events (medium)
\* exactly when the mean gap is below 5 seconds, long_inactivity (low)
\* exactly when it is above 3600 seconds, nothing otherwise; fewer than two
\* events give no anomaly.
C21_AnomalyDetector ==
    FlagDone =>
        IF Len(Analysed) < 2 THEN response.anomalies = << >>
        ELSE [i \in DOMAIN response.anomalies |->
                 [type |-> response.anomalies[i].type,
                  severity |-> response.anomalies[i].severity]]
                 = ExpectedAnomalies(ComputableGaps(SortedEvents(Analysed)))

AllParse(evs) == \A i \in DOMAIN evs : Parses(evs[i])

\* the seconds from the earliest to the latest of the events
TimeSpan(evs) ==
    LET times == { ParseSeconds(evs[i].timestamp) : i \in DOMAIN evs }
    IN  (CHOOSE t \in times : \A u \in times : u <= t)
            - (CHOOSE t \in times : \A u \in times : t <= u)

FlagsOfType(type) ==
    { i \in DOMAIN response.redFlags : response.redFlags[i].type = type }

\* C22: the red-flag detector reports rapid_completion (medium) exactly
\* when the last event is less than 300 seconds after the first one and
\* there are more than 10 code_modified events.
C22_RapidCompletion ==
    (FlagDone /\ Analysed # << >> /\ AllParse(Analysed)) =>
        IF /\ TimeSpan(Analysed) < 300
           /\ CountEvents(Analysed, {"code_modified"}) > 10
        THEN /\ Cardinality(FlagsOfType("rapid_completion")) = 1
             /\ \A i \in FlagsOfType("rapid_completion") :
                    response.redFlags[i].severity = "medium"
        ELSE FlagsOfType("rapid_completion") = {}

\* C23: the red-flag detector reports perfect_solution_no_modifications
\* (high), once, iff some submission has score 100 and fewer than 3 events
\* are code_modified; it reports no_modifications_only_copies (high) iff
\* there is a copy event and no code_modified event; both may be reported
\* in one run.
C23_PerfectAndCopyOnlyFlags ==
    FlagDone =>
        LET mods == CountEvents(Analysed, {"code_modified"})
            copies == CountEvents(Analysed, {"code_copied_from_ai", "code_copied"})
            perfect == \E i \in DOMAIN submissions :
                           /\ "score" \in DOMAIN submissions[i]
                           /\ submissions[i].score = 100
        IN  /\ Cardinality(FlagsOfType("perfect_solution_no_modifications"))
                   = (IF perfect /\ mods < 3 THEN 1 ELSE 0)
            /\ Cardinality(FlagsOfType("no_modifications_only_copies"))
                   = (IF copies > 0 /\ mods = 0 THEN 1 ELSE 0)
            /\ \A i \in FlagsOfType("perfect_solution_no_modifications")
                        \cup FlagsOfType("no_modifications_only_copies") :
                   response.redFlags[i].severity = "high"

\* both flags in one report, beside submissions that are not perfect
C23_Witness ==
    /\ FlagDone
    /\ Len(submissions) = 2
    /\ [i \in DOMAIN response.redFlags |-> response.redFlags[i].type]
           = <<"perfect_solution_no_modifications",
               "no_modifications_only_copies">>

\* the snippet of the copy event is not empty and is part of the text of a
\* response among the events
SnippetInResponse(copy_event, evs) ==
    /\ "code_snippet" \in DOMAIN copy_event
    /\ copy_event.code_snippet # None
    /\ copy_event.code_snippet # << >>
    /\ \E j \in DOMAIN evs :
           /\ evs[j].event_type = "response_received"
           /\ "response_text" \in DOMAIN evs[j]
           /\ evs[j].response_text # None
           /\ \E a \in 1..Len(evs[j].response_text),
                 b \in 1..Len(evs[j].response_text) :
                  SubSeq(evs[j].response_text, a, b) = copy_event.code_snippet

CopiesInResponses ==
    { i \in DOMAIN Analysed :
        /\ Analysed[i].event_type \in {"code_copied_from_ai", "code_copied"}
        /\ SnippetInResponse(Analysed[i], Analysed) }

PatternEntries(pattern) ==
    { k \in DOMAIN response.plagiarismAnalysis.patterns :
        response.plagiarismAnalysis.patterns[k] = pattern }

\* C24: every copy event whose non-empty snippet is part of a response's
\* text makes the plagiarism analysis suspicious and adds
\* code_matches_ai_response to its patterns; the confidence is the greatest
\* of those of the checks that trigger, 70 with this check alone and 80 with
\* identical submissions as well.
C24_CodeMatchesResponse ==
    FlagDone =>
        /\ Cardinality(PatternEntries("code_matches_ai_response"))
               = Cardinality(CopiesInResponses)
        /\ CopiesInResponses # {} =>
               /\ response.plagiarismAnalysis.suspicious
               /\ response.plagiarismAnalysis.confidence
                      = (IF HasEqualNonEmptyCodes(submissions) THEN 80 ELSE 70)

\* a snippet found inside a longer response, without identical submissions
C24_Witness ==
    /\ FlagDone
    /\ Cardinality(CopiesInResponses) = 2
    /\ Len(submissions) = 2
    /\ response.plagiarismAnalysis.patterns
           = <<"code_matches_ai_response", "code_matches_ai_response">>
    /\ response.plagiarismAnalysis.confidence = 70

\* round(n / d) of Python: to the nearest integer, a half to the even one
RoundHalfEven(n, d) ==
    LET q == n \div d
        r == n % d
    IN  IF 2 * r < d THEN q
        ELSE IF 2 * r > d THEN q + 1
        ELSE IF q % 2 = 0 THEN q ELSE q + 1

\* C25: with at least one prompt_sent event the behaviour score is
\* min(100, round(modifications / prompts * 50 + 50)), and it is 50 without
\* prompts.
C25_BehaviourScore ==
    ExecuteDone =>
        LET prompts == CountEvents(interactions, {"prompt_sent"})
            modifications == CountEvents(interactions, {"code_modified"})
        IN  response.behaviorScore =
                IF prompts > 0
                THEN Min(100, RoundHalfEven(50 * modifications + 50 * prompts,
                                            prompts))
                ELSE 50

\* a paste made more than 0 and less than 30 seconds after the copy
ClosePastes(copy_event) ==
    { j \in DOMAIN interactions :
        /\ interactions[j].event_type \in {"code_pasted_from_ai", "code_pasted"}
        /\ Parses(copy_event) /\ Parses(interactions[j])
        /\ ParseSeconds(interactions[j].timestamp)
               > ParseSeconds(copy_event.timestamp)
        /\ ParseSeconds(interactions[j].timestamp)
               < ParseSeconds(copy_event.timestamp) + 30 }

\* the positions of the copy events that have such a paste
CopiesWithPaste ==
    { i \in DOMAIN interactions :
        /\ interactions[i].event_type \in {"code_copied_from_ai", "code_copied"}
        /\ ClosePastes(interactions[i]) # {} }

\* C26: a copyPastePatterns entry is recorded for a copy event iff some
\* paste event occurs strictly after it and within 30 seconds; there is one
\* entry per such copy event, in the order of the copies, with the
\* timestamps of the copy and of a paste and the positive gap between them.
C26_CopyPasteCorrelation ==
    ExecuteDone =>
        LET entries == response.patterns.copyPastePatterns
            Position(k) ==
                CHOOSE i \in CopiesWithPaste :
                    Cardinality({ h \in CopiesWithPaste : h <= i }) = k
        IN  /\ Len(entries) = Cardinality(CopiesWithPaste)
            /\ \A k \in DOMAIN entries :
                   /\ entries[k].copyTimestamp = interactions[Position(k)].timestamp
                   /\ \E j \in ClosePastes(interactions[Position(k)]) :
                          /\ entries[k].pasteTimestamp = interactions[j].timestamp
                          /\ entries[k].timeDiff =
                                 ParseSeconds(interactions[j].timestamp)
                                     - ParseSeconds(entries[k].copyTimestamp)
                          /\ entries[k].timeDiff > 0

\* three copies and one paste: two copies are followed by it, the third is
\* made at its very moment
C26_Witness ==
    /\ ExecuteDone
    /\ CountEvents(interactions, {"code_copied_from_ai", "code_copied"}) = 3
    /\ Len(response.patterns.copyPastePatterns) = 2
    /\ response.patterns.copyPastePatterns[1].timeDiff = 4
    /\ response.patterns.copyPastePatterns[2].timeDiff = 2

\* C27: metadata that arrives as a string is parsed before its fields are
\* read and a string that gives no metadata object counts as empty
\* metadata; no metadata value makes watch_session fail.
C27_MetadataNeverFatal ==
    (response.tool = "watch_session" /\ Started /\ interactions = << >>) =>
        response.success

\* C28: every flag-mode violation is high or medium and at most one, the
\* suspicious_timing one, is medium; so a flag_sanity_checks result with 4
\* or more violations has riskScore 100, as has every result whose
\* violation_count check is failed.
C28_ManyViolationsSaturate ==
    FlagDone =>
        LET vs == response.violations
            medium == { i \in DOMAIN vs : vs[i].severity = "medium" }
        IN  /\ \A i \in DOMAIN vs : vs[i].severity \in {"high", "medium"}
            /\ Cardinality(medium) <= 1
            /\ \A i \in medium : vs[i].type = "suspicious_timing"
            /\ Len(vs) >= 4 => response.riskScore = 100
            /\ response.sanityChecks[1].check = "violation_count"
            /\ response.sanityChecks[1].status = "failed" =>
                   response.riskScore = 100

\* three high violations and the medium one, no event pattern adding to
\* the score
C28_Witness ==
    /\ FlagDone
    /\ Len(response.violations) = 4
    /\ \E i \in DOMAIN response.violations :
           response.violations[i].severity = "medium"
    /\ CountEvents(Analysed, {"code_copied_from_ai", "code_copied"}) = 0
    /\ response.sanityChecks[1].status = "passed"
    /\ response.riskScore = 100

\* C29: rapid_completion is never reported together with
\* perfect_solution_no_modifications or no_modifications_only_copies, no
\* flag type is reported twice, and the red_flags check is warning exactly
\* when rapid_completion is the only red flag.
C29_RedFlagExclusion ==
    FlagDone =>
        LET types == [i \in DOMAIN response.redFlags |-> response.redFlags[i].type]
        IN  /\ FlagsOfType("rapid_completion") # {} =>
                   /\ FlagsOfType("perfect_solution_no_modifications") = {}
                   /\ FlagsOfType("no_modifications_only_copies") = {}
            /\ \A i \in DOMAIN types, j \in DOMAIN types :
                   i # j => types[i] # types[j]
            /\ response.sanityChecks[2].check = "red_flags"
            /\ response.sanityChecks[2].status = "warning"
                   <=> types = <<"rapid_completion">>

\* a perfect submission and a copy in a session of 11 quick modifications
C29_Witness ==
    /\ FlagDone
    /\ submissions # << >>
    /\ CountEvents(Analysed, {"code_copied_from_ai", "code_copied"}) = 1
    /\ Cardinality(FlagsOfType("rapid_completion")) = 1
    /\ Len(response.redFlags) = 1
    /\ response.sanityChecks[2].status = "warning"

\* C30: in every plagiarism analysis suspicious holds iff patterns is not
\* empty iff confidence is above 0; confidence is 0, 70 or 80, and it is 80
\* iff identical_submissions is among the patterns, where it is at most
\* once.
C30_PlagiarismConsistent ==
    FlagDone =>
        LET analysis == response.plagiarismAnalysis
        IN  /\ analysis.suspicious <=> analysis.patterns # << >>
            /\ analysis.patterns # << >> <=> analysis.confidence > 0
            /\ analysis.confidence \in {0, 70, 80}
            /\ analysis.confidence = 80
                   <=> PatternEntries("identical_submissions") # {}
            /\ Cardinality(PatternEntries("identical_submissions")) <= 1

\* both checks trigger
C30_Witness ==
    /\ FlagDone
    /\ response.plagiarismAnalysis.patterns
           = <<"identical_submissions", "code_matches_ai_response">>
    /\ response.plagiarismAnalysis.suspicious
    /\ response.plagiarismAnalysis.confidence = 80

=============================================================================
